---- MODULE Spec2Model ----
(***************************************************************************)
(* Model of memory-vector-store: the VectorStore index (core/vector-store),*)
(* the Locker gate and the debounce scheduler (shared/util), and the       *)
(* storage adapters (storage).                                             *)
(*                                                                         *)
(* Conventions                                                             *)
(*  - an ordered JS Map is a sequence of entries with distinct keys, in    *)
(*    insertion order;                                                     *)
(*  - a JS object that is shared by reference (StoreCache) lives in `heap` *)
(*    and is named by its address;                                         *)
(*  - options.maxFileSizeMB is kept in bytes (the option times 1024*1024), *)
(*    so that small snapshots can exceed it;                               *)
(*  - scores are exact: dot / sqrt(normA * normB) is kept as the pair      *)
(*    (dot, normA * normB).  The vectors used have norms that are perfect  *)
(*    squares, for which the IEEE-754 computation orders and equates the   *)
(*    scores exactly as the exact values do;                               *)
(*  - metadata ranges over JSON-serialisable values.                       *)
(***************************************************************************)
EXTENDS Integers, Sequences, FiniteSets, TLC

(***************************************************************************)
(* Bounds of the model                                                     *)
(***************************************************************************)
MaxParserCalls == 2
MaxSaves == 1
MaxBurstSaves == 2
MaxPendingAdds == 1
MaxRestarts == 1
MaxSearchEntries == 5
MaxSearchParses == 1
MaxEvictEntries == 3
MaxZeroEntries == 2

(***************************************************************************)
(* Program constants                                                       *)
(***************************************************************************)
Delay == 100
DefaultMaxFileSizeMB == 500

(***************************************************************************)
(* Input domains                                                           *)
(***************************************************************************)
Handles == {"h1", "h2"}
(* handles are interchangeable: they are constructed in this order *)
HandleOrder == [h \in Handles |-> IF h = "h1" THEN 1 ELSE 2]
Paths == {"", "p1", "p2"}
(* the storagePaths of the specifications that need one snapshot only *)
ConstructPaths == {"", "p1"}
AllContents == <<"a", "bb", "ccc", "dddd", "eeeee", "ffffff", "ggggggg">>
Contents == {"a", "bb"}
Undefined == "undefined"
Null == "null"
Metas == {Undefined, "m1"}
Vectors == {<<1, 0>>, <<3, 4>>}
(* the options a caller constructs an index with: autoSave, and
   maxFileSizeMB in bytes *)
OptionSets == {[autoSave |-> TRUE, maxFileSizeMB |-> 20],
               [autoSave |-> FALSE, maxFileSizeMB |-> 0]}
TickSteps == {50}

(***************************************************************************)
(* Sequence helpers                                                        *)
(***************************************************************************)
Range(s) == {s[i] : i \in 1..Len(s)}

Min(a, b) == IF a < b THEN a ELSE b

Max(a, b) == IF a > b THEN a ELSE b

Keys(store) == {store[i].content : i \in 1..Len(store)}

IndexOf(store, content) ==
  IF content \in Keys(store)
  THEN CHOOSE i \in 1..Len(store) : store[i].content = content
  ELSE 0

(* set that moves an existing key to the end of the map, as a delete
   followed by a set would *)
MapSetMovesLast(store, content, value) ==
  Append(SelectSeq(store, LAMBDA x : x.content # content),
         [content |-> content, vector |-> value.vector, metadata |-> value.metadata])

(* Map.prototype.set: an existing key keeps its position, a new key is
   appended. *)
MapSet(store, content, value) ==
  LET e == [content |-> content, vector |-> value.vector, metadata |-> value.metadata]
      i == IndexOf(store, content)
  IN IF i = 0 THEN Append(store, e) ELSE [store EXCEPT ![i] = e]

(* delete that leaves the map as it is *)
MapDeleteNone(store, content) == store

(* Map.prototype.delete *)
MapDelete(store, content) ==
  LET i == IndexOf(store, content)
  IN IF i = 0 THEN store
     ELSE [j \in 1..(Len(store) - 1) |-> IF j < i THEN store[j] ELSE store[j + 1]]

(* Map.prototype.has *)
MapHas(store, content) == content \in Keys(store)

(* Map.prototype.get, for a key the map has *)
MapGet(store, content) == store[IndexOf(store, content)]

(***************************************************************************)
(* Serialisation: serializeItem, JSON.stringify / JSON.parse and           *)
(* Buffer.byteLength                                                       *)
(***************************************************************************)
(* serializeItem: the positional triple [content, vector, metadata] *)
serializeItem(entry) == <<entry.content, entry.vector, entry.metadata>>

(* Array.from(store.entries(), serializeItem) *)
SerializeStore(store) == [i \in 1..Len(store) |-> serializeItem(store[i])]

(* JSON.stringify of one array element: JSON has no undefined, an undefined
   array element is written as null. *)
JsonValue(m) == IF m = Undefined THEN Null ELSE m

(* JSON.stringify(serializedData): a JSON document, given by the elements
   of the array it spells out *)
JsonStringify(data) ==
  [json |-> [i \in 1..Len(data) |-> <<data[i][1], data[i][2], JsonValue(data[i][3])>>],
   nulls |-> {}]

(* JSON.parse of a document written by JsonStringify: null stays null *)
JsonParse(text) == text.json

(* the positions of the parsed array whose element is null; JsonParse has
   an empty array there *)
JsonNulls(text) == text.nulls

(* number of characters of the decimal form of an integer *)
RECURSIVE DigitCount(_)
DigitCount(n) == IF n < 10 THEN 1 ELSE 1 + DigitCount(n \div 10)

NumBytes(n) == IF n < 0 THEN 1 + DigitCount(0 - n) ELSE DigitCount(n)

RECURSIVE SumBytes(_, _, _)
SumBytes(F(_), s, i) == IF i > Len(s) THEN 0 ELSE F(s[i]) + SumBytes(F, s, i + 1)

(* bytes of a JSON array whose elements take F(e) bytes: brackets, commas *)
ArrayBytes(F(_), s) == 2 + SumBytes(F, s, 1) + Max(0, Len(s) - 1)

(* a string of ASCII characters without escapes, in quotes *)
StringBytes(str) == Len(str) + 2

MetaBytes(m) == IF m = Null THEN 4 ELSE StringBytes(m)

VectorBytes(v) == ArrayBytes(NumBytes, v)

TripleBytes(t) == 2 + StringBytes(t[1]) + 1 + VectorBytes(t[2]) + 1 + MetaBytes(t[3])

(* Buffer.byteLength(jsonData, 'utf8') *)
ByteLength(text) == ArrayBytes(TripleBytes, text.json)

(* the array loses its last element, not its first *)
ShiftLast(data) == SubSeq(data, 1, Len(data) - 1)

(* serializedData.shift() *)
Shift(data) == SubSeq(data, 2, Len(data))

(* the eviction loop of save: shift from the front while the JSON is larger
   than maxSizeBytes and the array is not empty *)
RECURSIVE EvictLoop(_, _)
EvictLoop(data, maxSizeBytes) ==
  IF ByteLength(JsonStringify(data)) > maxSizeBytes /\ Len(data) > 0
  THEN EvictLoop(Shift(data), maxSizeBytes)
  ELSE data

(* store.clear(); for (item of serializedData) store.set(item[0], ...) *)
RECURSIVE RebuildFrom(_, _, _)
RebuildFrom(store, data, i) ==
  IF i > Len(data) THEN store
  ELSE RebuildFrom(MapSet(store, data[i][1], [vector |-> data[i][2], metadata |-> data[i][3]]),
                   data, i + 1)

(* (options.maxFileSizeMB || 500) * 1024 * 1024, the option kept in bytes *)
MaxSizeBytes(maxFileSizeMB) ==
  IF maxFileSizeMB = 0 THEN DefaultMaxFileSizeMB * 1024 * 1024 ELSE maxFileSizeMB


(***************************************************************************)
(* cosineSimilarity                                                        *)
(***************************************************************************)
(* A JS number that is the result of cosineSimilarity: NaN, or the real
   num / sqrt(den2) with den2 > 0. *)
NaN == [nan |-> TRUE, num |-> 0, den2 |-> 1]

Zero == [nan |-> FALSE, num |-> 0, den2 |-> 1]

(* a[i] * b[i] summed over i < a.length; b[i] is undefined beyond b.length
   and then every sum that involves b is NaN *)
RECURSIVE DotLoop(_, _, _)
DotLoop(a, b, i) == IF i > Len(a) THEN 0 ELSE a[i] * b[i] + DotLoop(a, b, i + 1)

cosineSimilarity(a, b) ==
  LET bShort == Len(b) < Len(a)
      bPrefix == IF bShort THEN a ELSE SubSeq(b, 1, Len(a))
      dotProduct == DotLoop(a, bPrefix, 1)
      normA == DotLoop(a, a, 1)
      normB == DotLoop(bPrefix, bPrefix, 1)
  IN IF normA = 0 \/ (~bShort /\ normB = 0) THEN Zero
     ELSE IF bShort THEN NaN
     ELSE [nan |-> FALSE, num |-> dotProduct, den2 |-> normA * normB]

(***************************************************************************)
(* cosineSimilarity in the arithmetic of JS numbers (IEEE 754 doubles)     *)
(* The sums of the loop are integers and exact; Math.sqrt, * and / each    *)
(* round their result to 53 significant bits, ties to even.                *)
(***************************************************************************)
(* natural numbers of up to Limbs * LimbBits bits: arrays of limbs, the
   lowest first *)
LimbBits == 13

Limbs == 10

MantissaBits == 53

LimbBase == 2 ^ LimbBits

BigZero == [i \in 1..Limbs |-> 0]

(* a natural number below LimbBase * LimbBase *)
BigOf(n) ==
  [i \in 1..Limbs |-> IF i = 1 THEN n % LimbBase ELSE IF i = 2 THEN n \div LimbBase ELSE 0]

(* 2^j *)
BigPow2(j) ==
  [i \in 1..Limbs |-> IF i = j \div LimbBits + 1 THEN 2 ^ (j % LimbBits) ELSE 0]

(* the limbs of sum(x[i] * LimbBase^(i-1)) + c, the top carry dropped; each
   intermediate value of the arithmetic is bound once, as an element of a
   one-element set, and so evaluated once *)
RECURSIVE Carry(_, _, _)
Carry(x, i, c) ==
  IF i > Limbs THEN <<>>
  ELSE CHOOSE r \in {<<t % LimbBase>> \o Carry(x, i + 1, t \div LimbBase) : t \in {x[i] + c}} :
         TRUE

BigAdd(a, b) ==
  CHOOSE r \in {Carry(x, 1, 0) : x \in {[i \in 1..Limbs |-> a[i] + b[i]]}} : TRUE

(* a - b for a >= b: a plus the complement of b plus 1 *)
BigSub(a, b) ==
  CHOOSE r \in {Carry(x, 1, 1) : x \in {[i \in 1..Limbs |-> a[i] + (LimbBase - 1 - b[i])]}} :
    TRUE

(* -1, 0 or 1 as a is below, equal to or above b; compared from limb i down *)
RECURSIVE BigCompare(_, _, _)
BigCompare(a, b, i) ==
  IF i = 0 THEN 0
  ELSE IF a[i] < b[i] THEN -1
  ELSE IF a[i] > b[i] THEN 1
  ELSE BigCompare(a, b, i - 1)

BigLeq(a, b) == BigCompare(a, b, Limbs) <= 0

RECURSIVE LimbProducts(_, _, _, _)
LimbProducts(a, b, k, i) ==
  IF i > k THEN 0 ELSE a[i] * b[k - i + 1] + LimbProducts(a, b, k, i + 1)

(* a * b, for a product below 2^(Limbs * LimbBits) *)
BigMul(a, b) ==
  CHOOSE r \in {Carry(x, 1, 0) : x \in {[k \in 1..Limbs |-> LimbProducts(a, b, k, 1)]}} : TRUE

LimbAt(a, i) == IF i \in 1..Limbs THEN a[i] ELSE 0

(* a divided by 2^s, rounded down *)
BigShr(a, s) ==
  LET q == s \div LimbBits
      r == s % LimbBits
  IN [i \in 1..Limbs |->
        LimbAt(a, i + q) \div (2 ^ r) + (LimbAt(a, i + q + 1) % (2 ^ r)) * 2 ^ (LimbBits - r)]

BigShl(a, s) == BigMul(a, BigPow2(s))

(* bit j of a, the lowest being bit 0 *)
BigBit(a, j) == (a[j \div LimbBits + 1] \div (2 ^ (j % LimbBits))) % 2

(* the number of bits of a > 0 *)
BitLength(a) ==
  LET top == CHOOSE i \in 1..Limbs : a[i] # 0 /\ \A j \in (i + 1)..Limbs : a[j] = 0
  IN (top - 1) * LimbBits + CHOOSE n \in 1..LimbBits : 2 ^ (n - 1) <= a[top] /\ a[top] < 2 ^ n

(* a positive double: mant * 2^exp with 2^52 <= mant < 2^53 *)
DoubleOne == [mant |-> BigPow2(MantissaBits - 1), exp |-> 1 - MantissaBits]

(* the double nearest to (v + f) * 2^e, ties to even, for v of more than
   53 bits and a fraction 0 <= f < 1 that is not 0 exactly when sticky *)
Rounded(v, sticky, e) ==
  LET s == BitLength(v) - MantissaBits
      top == BigShr(v, s)
      half == BigBit(v, s - 1) = 1
      rest == sticky \/ BigShl(BigShr(v, s - 1), s - 1) # v
      up == half /\ (rest \/ BigBit(top, 0) = 1)
      m == IF up THEN BigAdd(top, BigOf(1)) ELSE top
  IN IF m = BigPow2(MantissaBits)
     THEN [mant |-> BigPow2(MantissaBits - 1), exp |-> e + s + 1]
     ELSE [mant |-> m, exp |-> e + s]

RoundToDouble(v, sticky, e) == CHOOSE r \in {Rounded(w, sticky, e) : w \in {v}} : TRUE

(* one step of the integer square root by subtraction: c collects the
   root, x is what is left of the number, 2^j is the power of 4 at hand *)
SqrtStep(st, j) ==
  LET cd == BigAdd(st.c, BigPow2(j))
  IN IF BigLeq(cd, st.x)
     THEN [x |-> BigSub(st.x, cd), c |-> BigAdd(BigShr(st.c, 1), BigPow2(j))]
     ELSE [x |-> st.x, c |-> BigShr(st.c, 1)]

(* n steps, at 2^j, 2^(j-2), ...: the first half of them, then the rest *)
RECURSIVE SqrtLoop(_, _, _)
SqrtLoop(st, j, n) ==
  IF n = 0 THEN st
  ELSE IF n = 1 THEN SqrtStep(st, j)
  ELSE CHOOSE r \in {SqrtLoop(mid, j - 2 * (n \div 2), n - n \div 2) :
                       mid \in {SqrtLoop(st, j, n \div 2)}} : TRUE

(* Math.sqrt(n) for an integer 0 < n < 64: the square root of n * 2^106,
   rounded *)
MathSqrt(n) ==
  CHOOSE r \in {RoundToDouble(st.c, st.x # BigZero, 0 - MantissaBits) :
                  st \in {SqrtLoop([x |-> BigShl(BigOf(n), 2 * MantissaBits), c |-> BigZero],
                                    2 * MantissaBits + 4, MantissaBits + 3)}} : TRUE

(* x * y *)
DoubleMul(x, y) == RoundToDouble(BigMul(x.mant, y.mant), FALSE, x.exp + y.exp)

(* one step of the long division by b: r is the remainder, q the quotient
   so far *)
DivStep(st, b) ==
  LET r2 == BigAdd(st.r, st.r)
      q2 == BigAdd(st.q, st.q)
  IN IF BigLeq(b, r2)
     THEN [r |-> BigSub(r2, b), q |-> BigAdd(q2, BigOf(1))]
     ELSE [r |-> r2, q |-> q2]

(* n steps: the first half of them, then the rest *)
RECURSIVE DivLoop(_, _, _)
DivLoop(st, b, n) ==
  IF n = 0 THEN st
  ELSE IF n = 1 THEN DivStep(st, b)
  ELSE CHOOSE r \in {DivLoop(mid, b, n - n \div 2) : mid \in {DivLoop(st, b, n \div 2)}} : TRUE

(* n / y for an integer 0 < n < 64: the quotient of n * 2^108 by the
   mantissa of y, rounded *)
DoubleDiv(n, y) ==
  CHOOSE r \in {RoundToDouble(st.q, st.r # BigZero, 0 - (2 * MantissaBits + 2) - y.exp) :
                  st \in {DivLoop([r |-> BigOf(n), q |-> BigZero], y.mant,
                                   2 * MantissaBits + 2)}} : TRUE

(* x < y for two positive doubles *)
DoubleLess(x, y) ==
  IF x.exp # y.exp THEN x.exp < y.exp ELSE BigCompare(x.mant, y.mant, Limbs) < 0

(* cosineSimilarity(a, b) as a double, for integer vectors of one length:
   0, or a sign and the magnitude |dotProduct| / (sqrt(normA) * sqrt(normB)) *)
cosineSimilarityDouble(a, b) ==
  LET dotProduct == DotLoop(a, b, 1)
      normA == DotLoop(a, a, 1)
      normB == DotLoop(b, b, 1)
  IN IF normA = 0 \/ normB = 0 \/ dotProduct = 0
     THEN [zero |-> TRUE, negative |-> FALSE, magnitude |-> DoubleOne]
     ELSE CHOOSE r \in
            {[zero |-> FALSE, negative |-> dotProduct < 0,
              magnitude |-> DoubleDiv(IF dotProduct < 0 THEN 0 - dotProduct ELSE dotProduct,
                                      product)] :
               product \in {DoubleMul(sqrtA, sqrtB) :
                              sqrtA \in {MathSqrt(normA)}, sqrtB \in {MathSqrt(normB)}}} : TRUE

(* the sign-preserving square of a score, as a fraction over den2 *)
SignedSquare(s) == IF s.num < 0 THEN 0 - s.num * s.num ELSE s.num * s.num

(* x < y for two scores; a comparison with NaN is false *)
ScoreLess(x, y) ==
  /\ ~x.nan
  /\ ~y.nan
  /\ SignedSquare(x) * y.den2 < SignedSquare(y) * x.den2

ScoreEq(x, y) ==
  /\ ~x.nan
  /\ ~y.nan
  /\ SignedSquare(x) * y.den2 = SignedSquare(y) * x.den2

(***************************************************************************)
(* similaritySearch: candidates, filter, scores, sort, slice               *)
(***************************************************************************)
NoFilter == "nofilter"

(* the filter predicates a caller passes, over {content, metadata} *)
ApplyFilter(f, document) ==
  CASE f = "hasMeta" -> document.metadata = "m1"
    [] f = "notA" -> document.content # "a"
    [] OTHER -> TRUE

(* Array.prototype.filter *)
RECURSIVE FilterSeq(_, _)
FilterSeq(f, s) ==
  IF s = <<>> THEN <<>>
  ELSE IF ApplyFilter(f, Head(s)) THEN <<Head(s)>> \o FilterSeq(f, Tail(s))
  ELSE FilterSeq(f, Tail(s))

(* the scored candidates stay in the order of the map: no sort *)
InsertScoredLast(sorted, x) == Append(sorted, x)

(* the place of x in a sequence sorted by (a, b) => b.score - a.score: after
   every element that does not compare below it (the sort is stable) *)
RECURSIVE InsertScored(_, _)
(* x is placed before the elements it ties with: the sort is not stable *)
RECURSIVE InsertScoredBeforeTies(_, _)
InsertScoredBeforeTies(sorted, x) ==
  IF sorted = <<>> THEN <<x>>
  ELSE IF ~ScoreLess(x.score, Head(sorted).score) THEN <<x>> \o sorted
  ELSE <<Head(sorted)>> \o InsertScoredBeforeTies(Tail(sorted), x)

InsertScored(sorted, x) ==
  IF sorted = <<>> THEN <<x>>
  ELSE IF ScoreLess(Head(sorted).score, x.score) THEN <<x>> \o sorted
  ELSE <<Head(sorted)>> \o InsertScored(Tail(sorted), x)

(* scoredResults.sort((a, b) => b.score - a.score) *)
RECURSIVE SortScored(_, _)
SortScored(sorted, rest) ==
  IF rest = <<>> THEN sorted
  ELSE SortScored(InsertScored(sorted, Head(rest)), Tail(rest))

(* the optional argument k of similaritySearch: <<>> when it is omitted,
   <<k>> when it is passed *)
NoK == <<>>

(* Array.prototype.slice(0, k): an undefined end is the length, a negative
   end counts from the back *)
Slice0(s, k) ==
  LET end == IF k = NoK THEN Len(s)
             ELSE IF k[1] < 0 THEN Max(Len(s) + k[1], 0)
             ELSE Min(k[1], Len(s))
  IN SubSeq(s, 1, end)

(* Array.from(store.entries(), ([content, value]) => ({content, metadata})) *)
Documents(store) ==
  [i \in 1..Len(store) |-> [content |-> store[i].content, metadata |-> store[i].metadata]]

(* the candidates of a search: all documents, narrowed by the filter *)
Candidates(store, filter) ==
  IF filter = NoFilter THEN Documents(store) ELSE FilterSeq(filter, Documents(store))

(* candidates.map(item => ({item, score})) *)
Scored(store, queryVector, candidates) ==
  [i \in 1..Len(candidates) |->
     [content |-> candidates[i].content,
      metadata |-> candidates[i].metadata,
      score |-> cosineSimilarity(queryVector, MapGet(store, candidates[i].content).vector)]]

(* all documents are ranked and cut to k first, the filter is applied to
   what is left *)
SearchResultsFilterLast(store, queryVector, k, filter) ==
  LET top == Slice0(SortScored(<<>>, Scored(store, queryVector, Documents(store))), k)
  IN IF filter = NoFilter THEN top ELSE FilterSeq(filter, top)

(* the value similaritySearch resolves with, once queryVector is known *)
SearchResults(store, queryVector, k, filter) ==
  Slice0(SortScored(<<>>, Scored(store, queryVector, Candidates(store, filter))), k)

(* the number of calls of the filter made by one search *)
FilterCalls(store, filter) == IF filter = NoFilter THEN 0 ELSE Len(store)


(***************************************************************************)
(* State                                                                   *)
(***************************************************************************)
VARIABLES
  globalCache,    \* the registry: storagePath -> address of a StoreCache, 0 when absent
  heap,           \* the StoreCache objects of the process, by address
  handles,        \* the VectorStore instances: options, this.cache, this.saveLock
  timers,         \* the timers of the runtime that are set and have neither fired nor been cleared
  debounceCache,  \* the table of debounce: key -> id of the last timer set for it, 0 when absent
  disk,           \* what the storage adapter holds for each key
  adds,           \* calls of add that await the parser
  searches,       \* calls of similaritySearch that await the gate or the parser
  parserCalls,    \* number of calls of the vector parser so far
  saveCalls,      \* number of calls of save() that went past its guard so far
  burstRequests,  \* per key: calls of debounce since, and with, the last one made outside a delay window (up to 2)
  burstCalls,     \* per key: runs of a scheduled task in that time (up to 2)
  written,        \* per key: the array of the last call of the adapter's save that returned
  restarts,       \* number of times the process was started again
  lastOp          \* the operation that produced this state, with what it returned

vars == <<globalCache, heap, handles, timers, debounceCache, disk, adds, searches,
          parserCalls, saveCalls, burstRequests, burstCalls, written, restarts, lastOp>>

NoHandle ==
  [live |-> FALSE, path |-> "", autoSave |-> FALSE, maxFileSizeMB |-> 0,
   cache |-> 0, lockGen |-> 0, lockResolved |-> {}]

NoFile == [exists |-> FALSE, data |-> <<>>]

(* this.cache of a handle *)
CacheOf(h) == heap[handles[h].cache]

(* getAll() *)
getAll(h) == Documents(CacheOf(h).store)

(* count() *)
count(h) == Len(CacheOf(h).store)

(***************************************************************************)
(* Locker                                                                  *)
(* The promise of the gate is named by its generation: lock() makes the    *)
(* next one, unLock() resolves the current one, wait() returns it.         *)
(***************************************************************************)
(* new Locker(): the field initialiser Promise.resolve() is generation 0,
   the constructor then calls lock() *)
NewLocker == [lockGen |-> 1, lockResolved |-> {0}]

(* lock() that keeps the promise it had *)
lockKeep(hd) == hd

lock(hd) == [hd EXCEPT !.lockGen = hd.lockGen + 1]

unLock(hd) == [hd EXCEPT !.lockResolved = hd.lockResolved \cup {hd.lockGen}]

wait(hd) == hd.lockGen

(***************************************************************************)
(* debounce                                                                *)
(***************************************************************************)
TimerIds == 1..(2 * Cardinality(Paths) + 1)

(* the timer with this id, when it is set *)
PendingTimers(id) == {t \in timers : t.id = id}

(* ids the program knows: of timers that are set, and those debounce holds *)
KnownTimerIds == {t.id : t \in timers} \cup {debounceCache[p] : p \in Paths}

(* setTimeout returns an id no timer known to the program has *)
FreshTimerId ==
  CHOOSE id \in TimerIds \ KnownTimerIds :
    \A other \in TimerIds \ KnownTimerIds : id <= other

(* the pending timer is left to run *)
clearTimeoutNone(tms, id) == tms

(* clearTimeout: a pending timer is cancelled; the id of a timer that has
   fired, or no id (0), changes nothing *)
clearTimeout(tms, id) == {t \in tms : t.id # id}

(* is key inside a delay window: a timer was set for it less than Delay ago *)
InWindow(key) == \E t \in PendingTimers(debounceCache[key]) : t.remaining > 0

(* debounce keeps one timer for all keys: the call cancels every pending
   timer *)
debounceTimersOneSlot(key, owner) ==
  {[id |-> FreshTimerId, key |-> key, owner |-> owner, remaining |-> Delay]}

(* debounce(key, func, delay): the timers after the call; the task of the
   new timer is the closure save() made on handle `owner` *)
debounceTimers(key, owner) ==
  clearTimeout(timers, debounceCache[key])
    \cup {[id |-> FreshTimerId, key |-> key, owner |-> owner, remaining |-> Delay]}

(* debounce(key, func, delay): cache.set(key, id of the new timer) *)
debounceTable(key) == [debounceCache EXCEPT ![key] = FreshTimerId]

(* a debounce call outside a delay window starts a new burst for the key *)
debounceBurst(key) == IF InWindow(key) THEN burstCalls ELSE [burstCalls EXCEPT ![key] = 0]

debounceRequests(key) ==
  [burstRequests EXCEPT ![key] = IF InWindow(key) THEN Min(burstRequests[key] + 1, 2) ELSE 1]

(***************************************************************************)
(* save(): the part that runs in the caller                                *)
(***************************************************************************)
(* save() goes past its guard whatever the dirty flag and the path are *)
SaveSchedulesAlways(h, dirty) == TRUE

(* save() goes past its guard: the state is dirty and a path is configured *)
SaveSchedules(h, dirty) == dirty /\ handles[h].path # ""

(* save() called on h when the dirty flag is `dirty`: the gate is locked and
   the write is scheduled, or nothing happens *)
SaveEffect(h, dirty) ==
  IF SaveSchedules(h, dirty)
  THEN /\ handles' = [handles EXCEPT ![h] = lock(handles[h])]
       /\ timers' = debounceTimers(handles[h].path, h)
       /\ debounceCache' = debounceTable(handles[h].path)
       /\ burstCalls' = debounceBurst(handles[h].path)
       /\ burstRequests' = debounceRequests(handles[h].path)
       /\ saveCalls' = saveCalls + 1
  ELSE UNCHANGED <<handles, timers, debounceCache, burstRequests, burstCalls, saveCalls>>

(* the promise save() returns: the gate's promise after lock(), or
   Promise.resolve(), which is resolved as generation 0 is *)
SavePromise(h, dirty) == IF SaveSchedules(h, dirty) THEN wait(lock(handles[h])) ELSE 0

(***************************************************************************)
(* Storage adapter (NodeStorageProvider, BrowserStorageProvider)           *)
(***************************************************************************)
(* save(key, vectors): the JSON text of the array is written under key *)
AdapterSave(d, key, vectors) ==
  [d EXCEPT ![key] = [exists |-> TRUE, data |-> JsonStringify(vectors)]]

(* load(key): the parsed text, the empty array when nothing is stored *)
AdapterLoad(d, key) == IF d[key].exists THEN JsonParse(d[key].data) ELSE <<>>

(* load(key): the positions of the loaded array that hold null *)
AdapterLoadNulls(d, key) == IF d[key].exists THEN JsonNulls(d[key].data) ELSE {}

(* exists(key) *)
AdapterExists(d, key) == d[key].exists

(* how a call of the adapter ends: it returns, or exists throws, or load
   throws (a file that cannot be read, a text that is no JSON) *)
NoFault == "none"

AdapterFaults == {NoFault, "exists", "load"}

(***************************************************************************)
(* Construction                                                            *)
(***************************************************************************)
(* vectorData[i] of an array: undefined beyond its length *)
ElementAt(vectorData, i) == IF i < Len(vectorData) THEN vectorData[i + 1] ELSE Undefined

(* load(): the for-of loop over the loaded array from position i on; reading
   vectorData[0] of null throws, any array is stored *)
RECURSIVE LoadLoop(_, _, _, _)
LoadLoop(store, data, nulls, i) ==
  IF i > Len(data) THEN [threw |-> FALSE, store |-> store]
  ELSE IF i \in nulls THEN [threw |-> TRUE, store |-> store]
  ELSE LoadLoop(MapSet(store, ElementAt(data[i], 0),
                       [vector |-> ElementAt(data[i], 1),
                        metadata |-> ElementAt(data[i], 2)]),
                data, nulls, i + 1)

(* load(): the map after the try block: the catch block clears it *)
Loaded(loop) == IF loop.threw THEN <<>> ELSE loop.store

(* load(): the store of a fresh StoreCache after load(), when the adapter
   ends as `fault` says *)
load(path, fault) ==
  IF path = "" THEN <<>>
  ELSE IF fault = "exists" THEN <<>>
  ELSE IF ~AdapterExists(disk, path) THEN <<>>
  ELSE IF fault = "load" THEN <<>>
  ELSE Loaded(LoadLoop(<<>>, AdapterLoad(disk, path), AdapterLoadNulls(disk, path), 1))

(* the calls of the adapter load() makes: none for the empty path, exists,
   and load when exists returned true *)
LoadAdapterCalls(path, fault) ==
  IF path = "" THEN 0
  ELSE IF fault = "exists" THEN 1
  ELSE IF AdapterExists(disk, path) THEN 2 ELSE 1

(* the registry is never hit: every construction makes its own StoreCache *)
AttachesNever(path) == FALSE

(* initializeStore: globalCache.has(storagePath) *)
Attaches(path) == globalCache[path] # 0

(* initializeStore: the StoreCache the handle gets, a registered one or a
   new one *)
CacheFor(path) == IF Attaches(path) THEN globalCache[path] ELSE Len(heap) + 1

Init ==
  /\ globalCache = [p \in Paths |-> 0]
  /\ heap = <<>>
  /\ handles = [h \in Handles |-> NoHandle]
  /\ timers = {}
  /\ debounceCache = [p \in Paths |-> 0]
  /\ disk = [p \in Paths |-> NoFile]
  /\ adds = {}
  /\ searches = {}
  /\ parserCalls = 0
  /\ saveCalls = 0
  /\ burstRequests = [p \in Paths |-> 0]
  /\ burstCalls = [p \in Paths |-> 0]
  /\ written = [p \in Paths |-> <<>>]
  /\ restarts = 0
  /\ lastOp = [op |-> "init"]

(* new VectorStore(vectorParser, storageProvider, options), with an adapter
   that ends as `fault` says *)
ConstructWith(h, path, autoSave, maxFileSizeMB, fault) ==
  /\ ~handles[h].live
  /\ heap' = IF Attaches(path) THEN heap
             ELSE Append(heap, [dirty |-> FALSE, store |-> load(path, fault)])
  /\ globalCache' = [globalCache EXCEPT ![path] = CacheFor(path)]
  /\ handles' = [handles EXCEPT ![h] =
                   unLock([live |-> TRUE, path |-> path, autoSave |-> autoSave,
                           maxFileSizeMB |-> maxFileSizeMB, cache |-> CacheFor(path),
                           lockGen |-> NewLocker.lockGen,
                           lockResolved |-> NewLocker.lockResolved])]
  /\ lastOp' = [op |-> "construct", h |-> h, path |-> path, attached |-> Attaches(path),
                file |-> disk[path], fault |-> fault,
                adapterCalls |-> IF Attaches(path) THEN 0
                                 ELSE LoadAdapterCalls(path, fault)]
  /\ UNCHANGED <<timers, debounceCache, disk, adds, searches, parserCalls, saveCalls,
                 burstRequests, burstCalls, written, restarts>>

(* new VectorStore(vectorParser, storageProvider, options) with an adapter
   that returns *)
Construct(h, path, autoSave, maxFileSizeMB) ==
  ConstructWith(h, path, autoSave, maxFileSizeMB, NoFault)

(***************************************************************************)
(* add                                                                     *)
(***************************************************************************)
(* a name for a call of add or similaritySearch that is not in use *)
FreshCallId(calls) ==
  CHOOSE id \in 1..(Cardinality(calls) + 1) : id \notin {c.id : c \in calls}

(* add(document) up to `await this.vectorParser(d.content)`; a bare string
   is a document without metadata *)
AddCall(h, content, metadata) ==
  /\ handles[h].live
  /\ parserCalls' = parserCalls + 1
  /\ adds' = adds \cup {[id |-> FreshCallId(adds), h |-> h, content |-> content,
                         metadata |-> metadata]}
  /\ lastOp' = [op |-> "addCall", h |-> h]
  /\ UNCHANGED <<globalCache, heap, handles, timers, debounceCache, disk, searches,
                 saveCalls, burstRequests, burstCalls, written, restarts>>

(* add keeps what is stored for a known key, as the cache of the earlier
   version did *)
AddStoreKeep(store, content, metadata, vector) ==
  IF MapHas(store, content) THEN store
  ELSE MapSet(store, content, [metadata |-> metadata, vector |-> vector])

(* the store after add's store.set *)
AddStore(store, content, metadata, vector) ==
  MapSet(store, content, [metadata |-> metadata, vector |-> vector])

(* what add resolves with: {document: d, vector} *)
AddReturn(a, vector) ==
  [document |-> [content |-> a.content, metadata |-> a.metadata], vector |-> vector]

(* add(document) from the point the parser has resolved with `vector` *)
AddResolve(a, vector) ==
  LET h == a.h
      c == CacheOf(h)
  IN /\ a \in adds
     /\ adds' = adds \ {a}
     /\ heap' = [heap EXCEPT ![handles[h].cache] =
                   [dirty |-> TRUE, store |-> AddStore(c.store, a.content, a.metadata, vector)]]
     /\ IF handles[h].autoSave
        THEN SaveEffect(h, TRUE)
        ELSE UNCHANGED <<handles, timers, debounceCache, burstRequests, burstCalls, saveCalls>>
     /\ lastOp' = [op |-> "add", h |-> h, content |-> a.content, metadata |-> a.metadata,
                   parsed |-> vector, hadKey |-> MapHas(c.store, a.content),
                   previous |-> IF MapHas(c.store, a.content)
                                THEN <<MapGet(c.store, a.content)>> ELSE <<>>,
                   countBefore |-> Len(c.store), returned |-> AddReturn(a, vector)]
     /\ UNCHANGED <<globalCache, disk, searches, parserCalls, written, restarts>>

(* what `await this.vectorParser(content)` gives add when the parser
   resolves: an array with its elements, or a value that is no array
   (undefined, a number, a string) *)
ArrayResult(items) == [isArray |-> TRUE, items |-> items]

NonArrayResult == [isArray |-> FALSE, items |-> <<>>]

(* an element of an array that is not a number *)
NotANumber == "x"

(* arrays that hold an element that is not a number *)
MixedArrays == {<<1, 0, NotANumber>>}

(* add throws: new Error('Vector parser must return an array'); nothing was
   touched yet *)
AddThrow(a, result) ==
  /\ a \in adds
  /\ adds' = adds \ {a}
  /\ lastOp' = [op |-> "addError", h |-> a.h, content |-> a.content,
                error |-> "Vector parser must return an array", parsed |-> result]
  /\ UNCHANGED <<globalCache, heap, handles, timers, debounceCache, disk, searches,
                 parserCalls, saveCalls, burstRequests, burstCalls, written, restarts>>

(* add(document) from the point the parser has resolved with `result`:
   if (!Array.isArray(vector)) throw, else the rest of add *)
AddSettle(a, result) ==
  IF result.isArray THEN AddResolve(a, result.items) ELSE AddThrow(a, result)

(* what the parser throws or rejects with *)
ParserErrors == {"parser error 1", "parser error 2"}

(* add that marks the store dirty before it passes the parser's error on *)
AddRejectDirty(a, error) ==
  /\ a \in adds
  /\ adds' = adds \ {a}
  /\ heap' = [heap EXCEPT ![handles[a.h].cache].dirty = TRUE]
  /\ lastOp' = [op |-> "addRejected", h |-> a.h, content |-> a.content, error |-> error]
  /\ UNCHANGED <<globalCache, handles, timers, debounceCache, disk, searches,
                 parserCalls, saveCalls, burstRequests, burstCalls, written, restarts>>

(* add(document) when `await this.vectorParser(d.content)` throws `error`:
   add has no try block, its promise rejects with the error *)
AddReject(a, error) ==
  /\ a \in adds
  /\ adds' = adds \ {a}
  /\ lastOp' = [op |-> "addRejected", h |-> a.h, content |-> a.content, error |-> error]
  /\ UNCHANGED <<globalCache, heap, handles, timers, debounceCache, disk, searches,
                 parserCalls, saveCalls, burstRequests, burstCalls, written, restarts>>

(***************************************************************************)
(* remove, clear, save                                                     *)
(***************************************************************************)
(* remove that takes every call for a deletion *)
DeletedAlways(store, content) == TRUE

(* remove: this.cache.store.size !== initialLength *)
Deleted(store, content) == Len(MapDelete(store, content)) # Len(store)

(* remove(content) that saves after a deletion whatever autoSave is *)
RemoveSaves(h, content) ==
  LET c == CacheOf(h)
  IN /\ handles[h].live
     /\ heap' = [heap EXCEPT ![handles[h].cache] =
                   [dirty |-> IF Deleted(c.store, content) THEN TRUE ELSE c.dirty,
                    store |-> MapDelete(c.store, content)]]
     /\ IF Deleted(c.store, content)
        THEN SaveEffect(h, TRUE)
        ELSE UNCHANGED <<handles, timers, debounceCache, burstRequests, burstCalls, saveCalls>>
     /\ lastOp' = [op |-> "remove", h |-> h, content |-> content,
                   deleted |-> Deleted(c.store, content)]
     /\ UNCHANGED <<globalCache, disk, adds, searches, parserCalls, written, restarts>>

(* remove(content) *)
Remove(h, content) ==
  LET c == CacheOf(h)
  IN /\ handles[h].live
     /\ heap' = [heap EXCEPT ![handles[h].cache] =
                   [dirty |-> IF Deleted(c.store, content) THEN TRUE ELSE c.dirty,
                    store |-> MapDelete(c.store, content)]]
     /\ IF Deleted(c.store, content) /\ handles[h].autoSave
        THEN SaveEffect(h, TRUE)
        ELSE UNCHANGED <<handles, timers, debounceCache, burstRequests, burstCalls, saveCalls>>
     /\ lastOp' = [op |-> "remove", h |-> h, content |-> content,
                   deleted |-> Deleted(c.store, content)]
     /\ UNCHANGED <<globalCache, disk, adds, searches, parserCalls, written, restarts>>

(* clear() that sets the dirty flag and saves also on an empty map *)
ClearAlways(h) ==
  LET c == CacheOf(h)
  IN /\ handles[h].live
     /\ heap' = [heap EXCEPT ![handles[h].cache] = [dirty |-> TRUE, store |-> <<>>]]
     /\ IF handles[h].autoSave
        THEN SaveEffect(h, TRUE)
        ELSE UNCHANGED <<handles, timers, debounceCache, burstRequests, burstCalls, saveCalls>>
     /\ lastOp' = [op |-> "clear", h |-> h, nonEmpty |-> Len(c.store) > 0]
     /\ UNCHANGED <<globalCache, disk, adds, searches, parserCalls, written, restarts>>

(* clear() *)
Clear(h) ==
  LET c == CacheOf(h)
  IN /\ handles[h].live
     /\ heap' = [heap EXCEPT ![handles[h].cache] =
                   IF Len(c.store) > 0 THEN [dirty |-> TRUE, store |-> <<>>] ELSE c]
     /\ IF Len(c.store) > 0 /\ handles[h].autoSave
        THEN SaveEffect(h, TRUE)
        ELSE UNCHANGED <<handles, timers, debounceCache, burstRequests, burstCalls, saveCalls>>
     /\ lastOp' = [op |-> "clear", h |-> h, nonEmpty |-> Len(c.store) > 0]
     /\ UNCHANGED <<globalCache, disk, adds, searches, parserCalls, written, restarts>>

(* save() called by the user *)
Save(h) ==
  /\ handles[h].live
  /\ SaveEffect(h, CacheOf(h).dirty)
  /\ lastOp' = [op |-> "save", h |-> h, promise |-> SavePromise(h, CacheOf(h).dirty)]
  /\ UNCHANGED <<globalCache, heap, disk, adds, searches, parserCalls, written, restarts>>

(***************************************************************************)
(* Time and the scheduled write                                            *)
(***************************************************************************)
(* d time units pass *)
Tick(d) ==
  /\ \E t \in timers : t.remaining > 0
  /\ timers' = {[t EXCEPT !.remaining = Max(0, t.remaining - d)] : t \in timers}
  /\ lastOp' = [op |-> "tick"]
  /\ UNCHANGED <<globalCache, heap, handles, debounceCache, disk, adds, searches,
                 parserCalls, saveCalls, burstRequests, burstCalls, written, restarts>>

(* the write task trims: dataSize > maxSizeBytes && serializedData.length > 0 *)
Trims(store, maxFileSizeMB) ==
  /\ ByteLength(JsonStringify(SerializeStore(store))) > MaxSizeBytes(maxFileSizeMB)
  /\ Len(store) > 0

(* the write task passes the whole map, whatever its size *)
WriteDataUntrimmed(store, maxFileSizeMB) == SerializeStore(store)

(* the array the write task passes to the adapter *)
WriteData(store, maxFileSizeMB) ==
  IF Trims(store, maxFileSizeMB)
  THEN EvictLoop(SerializeStore(store), MaxSizeBytes(maxFileSizeMB))
  ELSE SerializeStore(store)

(* the write task leaves the map cleared when it trimmed: the entries are
   set again later *)
WriteStoreCleared(store, maxFileSizeMB) ==
  IF Trims(store, maxFileSizeMB) THEN <<>> ELSE store

(* the map after the write task: rebuilt from the trimmed array when it
   trimmed, untouched otherwise *)
WriteStore(store, maxFileSizeMB) ==
  IF Trims(store, maxFileSizeMB)
  THEN RebuildFrom(<<>>, WriteData(store, maxFileSizeMB), 1)
  ELSE store

(* the dirty flag is cleared whether or not the adapter returned *)
WriteDirtyClear(dirty, ok) == FALSE

(* the write task leaves the dirty flag as it found it *)
WriteDirtyKept(dirty, ok) == dirty

(* the dirty flag after the write task: cleared once the adapter returned *)
WriteDirty(dirty, ok) == IF ok THEN FALSE ELSE dirty

(* the timer t fires and runs the task save() gave to debounce; `ok` is
   whether storageProvider.save returns (TRUE) or throws (FALSE) *)
TimerFire(t, ok) ==
  LET h == t.owner
      c == CacheOf(h)
      data == WriteData(c.store, handles[h].maxFileSizeMB)
  IN /\ t \in timers
     /\ t.remaining = 0
     /\ timers' = timers \ {t}
     /\ heap' = [heap EXCEPT ![handles[h].cache] =
                   [dirty |-> WriteDirty(c.dirty, ok),
                    store |-> WriteStore(c.store, handles[h].maxFileSizeMB)]]
     /\ disk' = IF ok THEN AdapterSave(disk, handles[h].path, data) ELSE disk
     /\ written' = IF ok THEN [written EXCEPT ![handles[h].path] = data] ELSE written
     /\ burstCalls' = [burstCalls EXCEPT ![t.key] = Min(burstCalls[t.key] + 1, 2)]
     /\ handles' = [handles EXCEPT ![h] = unLock(handles[h])]
     /\ lastOp' = [op |-> "write", h |-> h, path |-> handles[h].path, ok |-> ok,
                   timer |-> t.id, before |-> c.store, passed |-> data]
     /\ UNCHANGED <<globalCache, debounceCache, adds, searches, parserCalls, saveCalls,
                    burstRequests, restarts>>

(* the process ends and a new one starts: only the adapter's data survives *)
Restart ==
  /\ restarts' = restarts + 1
  /\ globalCache' = [p \in Paths |-> 0]
  /\ heap' = <<>>
  /\ handles' = [h \in Handles |-> NoHandle]
  /\ timers' = {}
  /\ debounceCache' = [p \in Paths |-> 0]
  /\ burstRequests' = [p \in Paths |-> 0]
  /\ burstCalls' = [p \in Paths |-> 0]
  /\ adds' = {}
  /\ searches' = {}
  /\ lastOp' = [op |-> "restart"]
  /\ UNCHANGED <<disk, written, parserCalls, saveCalls>>

(***************************************************************************)
(* similaritySearch                                                        *)
(***************************************************************************)
(* the mutation the caller made just before this call, if it made one:
   kept with the call to tell what the search should show *)
PriorMutation ==
  IF lastOp.op \in {"add", "remove"} THEN <<lastOp.op, lastOp.content>>
  ELSE IF lastOp.op = "clear" THEN <<lastOp.op>>
  ELSE <<>>

(* similaritySearch that locks the gate when it is called *)
SearchCallLocks(h, query, k, filter) ==
  /\ handles[h].live
  /\ searches' = searches \cup {[id |-> FreshCallId(searches), h |-> h, query |-> query,
                                 k |-> k, filter |-> filter, gen |-> wait(handles[h]),
                                 stage |-> "gate", prior |-> PriorMutation,
                                 waited |-> wait(handles[h]) \notin handles[h].lockResolved]}
  /\ handles' = [handles EXCEPT ![h] = lock(handles[h])]
  /\ lastOp' = [op |-> "searchCall", h |-> h]
  /\ UNCHANGED <<globalCache, heap, timers, debounceCache, disk, adds,
                 parserCalls, saveCalls, burstRequests, burstCalls, written, restarts>>

(* similaritySearch(query, k, filter) up to `await this.saveLock.wait()` *)
SearchCall(h, query, k, filter) ==
  /\ handles[h].live
  /\ searches' = searches \cup {[id |-> FreshCallId(searches), h |-> h, query |-> query,
                                 k |-> k, filter |-> filter, gen |-> wait(handles[h]),
                                 stage |-> "gate", prior |-> PriorMutation,
                                 waited |-> wait(handles[h]) \notin handles[h].lockResolved]}
  /\ lastOp' = [op |-> "searchCall", h |-> h]
  /\ UNCHANGED <<globalCache, heap, handles, timers, debounceCache, disk, adds,
                 parserCalls, saveCalls, burstRequests, burstCalls, written, restarts>>

(* what a search resolves with, and what it did on the way *)
SearchReturn(sr, store, queryVector, parsed) ==
  [op |-> "search", h |-> sr.h, query |-> sr.query, k |-> sr.k, filter |-> sr.filter,
   queryVector |-> queryVector, parsed |-> parsed, prior |-> sr.prior, waited |-> sr.waited,
   filterCalls |-> FilterCalls(store, sr.filter),
   results |-> SearchResults(store, queryVector, sr.k, sr.filter)]

(* the parser is called whether or not the query is a stored key *)
SearchGateParses(sr) ==
  /\ sr \in searches
  /\ sr.stage = "gate"
  /\ sr.gen \in handles[sr.h].lockResolved
  /\ searches' = (searches \ {sr}) \cup {[sr EXCEPT !.stage = "parser"]}
  /\ lastOp' = [op |-> "searchParse", h |-> sr.h]
  /\ parserCalls' = parserCalls + 1
  /\ UNCHANGED <<globalCache, heap, handles, timers, debounceCache, disk, adds,
                 saveCalls, burstRequests, burstCalls, written, restarts>>

(* the promise of the gate has resolved: the query vector is that of the
   stored key and the search completes, or the parser is called *)
SearchGate(sr) ==
  LET store == CacheOf(sr.h).store
  IN /\ sr \in searches
     /\ sr.stage = "gate"
     /\ sr.gen \in handles[sr.h].lockResolved
     /\ IF MapHas(store, sr.query)
        THEN /\ searches' = searches \ {sr}
             /\ lastOp' = SearchReturn(sr, store, MapGet(store, sr.query).vector, FALSE)
             /\ UNCHANGED parserCalls
        ELSE /\ searches' = (searches \ {sr}) \cup {[sr EXCEPT !.stage = "parser"]}
             /\ lastOp' = [op |-> "searchParse", h |-> sr.h]
             /\ parserCalls' = parserCalls + 1
     /\ UNCHANGED <<globalCache, heap, handles, timers, debounceCache, disk, adds,
                    saveCalls, burstRequests, burstCalls, written, restarts>>

(* the parser has resolved with `vector`: the rest of similaritySearch *)
SearchResolve(sr, vector) ==
  /\ sr \in searches
  /\ sr.stage = "parser"
  /\ searches' = searches \ {sr}
  /\ lastOp' = SearchReturn(sr, CacheOf(sr.h).store, vector, TRUE)
  /\ UNCHANGED <<globalCache, heap, handles, timers, debounceCache, disk, adds,
                 parserCalls, saveCalls, burstRequests, burstCalls, written, restarts>>

(* similaritySearch when `await this.vectorParser(query)` throws `error`:
   its promise rejects with the error *)
SearchReject(sr, error) ==
  /\ sr \in searches
  /\ sr.stage = "parser"
  /\ searches' = searches \ {sr}
  /\ lastOp' = [op |-> "searchRejected", h |-> sr.h, query |-> sr.query, error |-> error]
  /\ UNCHANGED <<globalCache, heap, handles, timers, debounceCache, disk, adds,
                 parserCalls, saveCalls, burstRequests, burstCalls, written, restarts>>

(***************************************************************************)
(* Bounds and reductions of the specifications                             *)
(***************************************************************************)
HandleInOrder(h) == \A g \in Handles : HandleOrder[g] < HandleOrder[h] => handles[g].live

(* the bounds leave room for a call of the parser *)
ParserRoom(max) == parserCalls < max

(* the bounds leave room for a call of save() that goes past its guard, when
   the operation makes one *)
SaveRoom(schedules, max) == schedules => saveCalls < max

AutoSaves(h) == handles[h].live /\ handles[h].autoSave /\ SaveSchedules(h, TRUE)

(***************************************************************************)
(* Steps of the index, over given sets of inputs                           *)
(***************************************************************************)
Mutate(HS, CS, MS, VS, maxParser, maxSaves) ==
  \/ \E h \in HS, content \in CS, metadata \in MS :
       /\ ParserRoom(maxParser)
       /\ Cardinality(adds) < MaxPendingAdds
       /\ AddCall(h, content, metadata)
  \/ \E a \in adds, vector \in VS :
       /\ SaveRoom(AutoSaves(a.h), maxSaves)
       /\ AddResolve(a, vector)
  \/ \E h \in HS, content \in CS :
       /\ SaveRoom(AutoSaves(h) /\ Deleted(CacheOf(h).store, content), maxSaves)
       /\ Remove(h, content)
  \/ \E h \in HS :
       /\ SaveRoom(AutoSaves(h) /\ Len(CacheOf(h).store) > 0, maxSaves)
       /\ Clear(h)

Persist(HS, maxSaves) ==
  \/ \E h \in HS :
       /\ SaveRoom(handles[h].live /\ SaveSchedules(h, CacheOf(h).dirty), maxSaves)
       /\ Save(h)
  \/ \E d \in TickSteps : Tick(d)
  \/ \E t \in timers, ok \in BOOLEAN : TimerFire(t, ok)

(* the caller of a handle awaits a search before it starts the next: a
   search changes nothing another search reads *)
Search(HS, QS, KS, FS, VS, maxParser) ==
  \/ \E h \in HS, query \in QS, k \in KS, filter \in FS :
       /\ \A sr \in searches : sr.h # h
       /\ SearchCall(h, query, k, filter)
  \/ \E sr \in searches :
       /\ MapHas(CacheOf(sr.h).store, sr.query) \/ ParserRoom(maxParser)
       /\ SearchGate(sr)
  \/ \E sr \in searches, vector \in VS : SearchResolve(sr, vector)

(***************************************************************************)
(* Spec: one process, two handles, each on the empty path or on p1         *)
(***************************************************************************)
Next ==
  \/ \E h \in Handles, path \in ConstructPaths, o \in OptionSets :
       /\ HandleInOrder(h)
       /\ Construct(h, path, o.autoSave, o.maxFileSizeMB)
  \/ Mutate(Handles, Contents, {Undefined}, {<<1, 0>>}, MaxParserCalls, MaxSaves)
  \/ Persist(Handles, MaxSaves)

Spec == Init /\ [][Next]_vars

(***************************************************************************)
(* SpecOne: one handle on p1, documents with and without metadata, a       *)
(* parser with two results                                                 *)
(***************************************************************************)
NextOne ==
  \/ \E o \in OptionSets : Construct("h1", "p1", o.autoSave, o.maxFileSizeMB)
  \/ Mutate({"h1"}, Contents, Metas, Vectors, MaxParserCalls, MaxSaves)
  \/ Persist({"h1"}, MaxSaves)

SpecOne == Init /\ [][NextOne]_vars

(***************************************************************************)
(* SpecPaths: one handle, on the empty path or on p1, one document         *)
(***************************************************************************)
NextPaths ==
  \/ \E path \in ConstructPaths, o \in OptionSets :
       Construct("h1", path, o.autoSave, o.maxFileSizeMB)
  \/ Mutate({"h1"}, {"a"}, Metas, {<<1, 0>>}, MaxParserCalls, MaxBurstSaves)
  \/ Persist({"h1"}, MaxBurstSaves)

SpecPaths == Init /\ [][NextPaths]_vars

(***************************************************************************)
(* SpecParser: one handle on p1 and a parser that may resolve with an      *)
(* array of numbers, an array with another element, or no array; up to the *)
(* time the first write is due                                             *)
(***************************************************************************)
ParserResults ==
  {ArrayResult(<<1, 0>>), NonArrayResult} \cup {ArrayResult(v) : v \in MixedArrays}

NextParser ==
  \/ \E o \in OptionSets : Construct("h1", "p1", o.autoSave, o.maxFileSizeMB)
  \/ \E content \in Contents :
       /\ ParserRoom(MaxParserCalls)
       /\ handles["h1"].live
       /\ AddCall("h1", content, Undefined)
  \/ \E a \in adds, result \in ParserResults :
       /\ SaveRoom(AutoSaves(a.h) /\ result.isArray, MaxBurstSaves)
       /\ AddSettle(a, result)
  \/ \E content \in Contents :
       /\ SaveRoom(AutoSaves("h1") /\ Deleted(CacheOf("h1").store, content), MaxBurstSaves)
       /\ Remove("h1", content)
  \/ /\ SaveRoom(handles["h1"].live /\ SaveSchedules("h1", CacheOf("h1").dirty),
                 MaxBurstSaves)
     /\ Save("h1")
  \/ \E d \in TickSteps : Tick(d)

SpecParser == Init /\ [][NextParser]_vars

(***************************************************************************)
(* SpecReject: one handle on p1 and a parser that may throw                *)
(***************************************************************************)
NextReject ==
  \/ \E o \in OptionSets : Construct("h1", "p1", o.autoSave, o.maxFileSizeMB)
  \/ Mutate({"h1"}, {"a"}, {Undefined}, {<<1, 0>>}, MaxParserCalls, MaxSaves)
  \/ \E a \in adds, error \in ParserErrors : AddReject(a, error)
  \/ Persist({"h1"}, MaxSaves)
  \/ Search({"h1"}, {"a", "zz"}, {NoK}, {NoFilter}, {<<1, 0>>}, MaxParserCalls)
  \/ \E sr \in searches, error \in ParserErrors : SearchReject(sr, error)

SpecReject == Init /\ [][NextReject]_vars

(***************************************************************************)
(* SpecLoad: two handles are constructed over a snapshot that may be       *)
(* damaged, with an adapter that may throw                                 *)
(***************************************************************************)
(* an element of a stored array as the write task serialises it *)
GoodTriple == <<"a", <<1, 0>>, Null>>

(* the texts found under p1: a snapshot of one document, one followed by
   null, one followed by an empty array, and one that is an element with the
   content only *)
SnapshotTexts ==
  {[json |-> <<GoodTriple>>, nulls |-> {}],
   [json |-> <<GoodTriple, <<>>>>, nulls |-> {2}],
   [json |-> <<GoodTriple, <<>>>>, nulls |-> {}],
   [json |-> <<<<"bb">>>>, nulls |-> {}]}

SnapshotFiles == {NoFile} \cup {[exists |-> TRUE, data |-> text] : text \in SnapshotTexts}

InitLoad ==
  /\ globalCache = [p \in Paths |-> 0]
  /\ heap = <<>>
  /\ handles = [h \in Handles |-> NoHandle]
  /\ timers = {}
  /\ debounceCache = [p \in Paths |-> 0]
  /\ \E file \in SnapshotFiles :
       disk = [p \in Paths |-> IF p = "p1" THEN file ELSE NoFile]
  /\ adds = {}
  /\ searches = {}
  /\ parserCalls = 0
  /\ saveCalls = 0
  /\ burstRequests = [p \in Paths |-> 0]
  /\ burstCalls = [p \in Paths |-> 0]
  /\ written = [p \in Paths |-> <<>>]
  /\ restarts = 0
  /\ lastOp = [op |-> "init"]

NextLoad ==
  \E h \in Handles, path \in ConstructPaths, o \in OptionSets, fault \in AdapterFaults :
    /\ HandleInOrder(h)
    /\ ConstructWith(h, path, o.autoSave, o.maxFileSizeMB, fault)

SpecLoad == InitLoad /\ [][NextLoad]_vars

(***************************************************************************)
(* SpecVisible: one handle on p1 whose caller searches between mutations   *)
(* and awaits each search; one document is larger than the size bound of   *)
(* the autoSave profile                                                    *)
(***************************************************************************)
VisibleContents == {"a", "ggggggg"}

NextVisible ==
  \/ \E o \in OptionSets : Construct("h1", "p1", o.autoSave, o.maxFileSizeMB)
  \/ /\ searches = {}
     /\ Mutate({"h1"}, VisibleContents, {Undefined}, {<<1, 0>>}, MaxParserCalls, MaxBurstSaves)
  \/ Persist({"h1"}, MaxBurstSaves)
  \/ Search({"h1"}, {"a", "zz"}, {NoK}, {NoFilter}, {<<1, 0>>}, MaxParserCalls + 1)

SpecVisible == Init /\ [][NextVisible]_vars

(***************************************************************************)
(* The factories memoryVectorStore and browserMemoryVectorStore            *)
(* maxFileSizeMB is counted in tenths of a megabyte, the grain of the      *)
(* browser's lower bound 0.1.                                              *)
(***************************************************************************)
NodeDefaultTenths == 5000

NodeMaxTenths == 10000

NodeMinTenths == 10

BrowserDefaultTenths == 30

BrowserMaxTenths == 30

BrowserMinTenths == 1

(* the values of options.maxFileSizeMB: a number, NaN, undefined given
   under the key, or the key left out *)
NumberValue(tenths) == [kind |-> "number", tenths |-> tenths]

NaNValue == [kind |-> "nan", tenths |-> 0]

UndefinedValue == [kind |-> "undefined", tenths |-> 0]

Omitted == [kind |-> "omitted", tenths |-> 0]

(* the conversion Math.min and Math.max apply to an argument: undefined
   becomes NaN *)
ToNumber(v) == IF v.kind = "undefined" THEN NaNValue ELSE v

(* Math.min(a, b): NaN when an argument is NaN *)
MathMin(a, b) ==
  IF ToNumber(a).kind = "nan" \/ ToNumber(b).kind = "nan" THEN NaNValue
  ELSE NumberValue(Min(a.tenths, b.tenths))

(* Math.max(a, b): NaN when an argument is NaN *)
MathMax(a, b) ==
  IF ToNumber(a).kind = "nan" \/ ToNumber(b).kind = "nan" THEN NaNValue
  ELSE NumberValue(Max(a.tenths, b.tenths))

(* {maxFileSizeMB: default, ...options}: a key of options replaces the
   default, also when its value is undefined *)
SpreadOver(default, supplied) == IF supplied.kind = "omitted" THEN default ELSE supplied

(* Math.max(Math.min(v, hi), lo) *)
Clamp(v, lo, hi) == MathMax(MathMin(v, NumberValue(hi)), NumberValue(lo))

(* memoryVectorStore: the maxFileSizeMB it constructs the index with *)
memoryVectorStore(supplied) ==
  Clamp(SpreadOver(NumberValue(NodeDefaultTenths), supplied), NodeMinTenths, NodeMaxTenths)

(* browserMemoryVectorStore: the maxFileSizeMB it constructs the index with *)
browserMemoryVectorStore(supplied) ==
  Clamp(SpreadOver(NumberValue(BrowserDefaultTenths), supplied),
        BrowserMinTenths, BrowserMaxTenths)

(* the index's (options.maxFileSizeMB || 500) in tenths: NaN, like 0 and
   undefined, gives 500 *)
EffectiveTenths(v) ==
  IF v.kind # "number" \/ v.tenths = 0 THEN DefaultMaxFileSizeMB * 10 ELSE v.tenths

(***************************************************************************)
(* SpecFactory: a factory is called with one value of maxFileSizeMB        *)
(***************************************************************************)
Environments == {"node", "browser"}

SuppliedTenths ==
  (-2..32) \cup {NodeDefaultTenths - 1, NodeDefaultTenths, NodeMaxTenths - 1,
                 NodeMaxTenths, NodeMaxTenths + 1, 2 * NodeMaxTenths}

SuppliedValues ==
  {NumberValue(t) : t \in SuppliedTenths} \cup {NaNValue, UndefinedValue, Omitted}

InitFactory ==
  /\ globalCache = [p \in Paths |-> 0]
  /\ heap = <<>>
  /\ handles = [h \in Handles |-> NoHandle]
  /\ timers = {}
  /\ debounceCache = [p \in Paths |-> 0]
  /\ disk = [p \in Paths |-> NoFile]
  /\ adds = {}
  /\ searches = {}
  /\ parserCalls = 0
  /\ saveCalls = 0
  /\ burstRequests = [p \in Paths |-> 0]
  /\ burstCalls = [p \in Paths |-> 0]
  /\ written = [p \in Paths |-> <<>>]
  /\ restarts = 0
  /\ \E env \in Environments, supplied \in SuppliedValues :
       lastOp = [op |-> "options", env |-> env, supplied |-> supplied]

(* the factory of the environment is called with the options drawn *)
FactoryCall ==
  /\ lastOp.op = "options"
  /\ lastOp' = [op |-> "factory", env |-> lastOp.env, supplied |-> lastOp.supplied,
                passed |-> IF lastOp.env = "node"
                           THEN memoryVectorStore(lastOp.supplied)
                           ELSE browserMemoryVectorStore(lastOp.supplied)]
  /\ UNCHANGED <<globalCache, heap, handles, timers, debounceCache, disk, adds, searches,
                 parserCalls, saveCalls, burstRequests, burstCalls, written, restarts>>

NextFactory == FactoryCall

SpecFactory == InitFactory /\ [][NextFactory]_vars

(***************************************************************************)
(* SpecRestart: one handle on p1, documents with and without metadata; the *)
(* process may end and start again                                         *)
(***************************************************************************)
NextRestart ==
  \/ \E o \in OptionSets : Construct("h1", "p1", o.autoSave, o.maxFileSizeMB)
  \/ Mutate({"h1"}, Contents, Metas, {<<1, 0>>}, MaxParserCalls, MaxSaves)
  \/ Persist({"h1"}, MaxSaves)
  \/ /\ restarts < MaxRestarts
     /\ Restart

SpecRestart == Init /\ [][NextRestart]_vars

(***************************************************************************)
(* Specifications that start from an index that already holds documents    *)
(***************************************************************************)
(* the stores a handle reaches by adding the first n of AllContents in the
   order of `perm`, each with a vector and metadata of ES *)
StoresOver(perm, ES) ==
  {[i \in 1..Len(perm) |-> [content |-> perm[i], vector |-> e[i].vector,
                             metadata |-> e[i].metadata]] :
     e \in [1..Len(perm) -> ES]}

(* sequences without repetition over a set, up to a length *)
RECURSIVE Arrangements(_, _)
Arrangements(S, n) ==
  IF n = 0 THEN {<<>>}
  ELSE LET shorter == Arrangements(S, n - 1)
       IN shorter \cup {Append(q, x) : q \in {r \in shorter : Len(r) = n - 1}, x \in S}

Distinct(q) == \A i, j \in 1..Len(q) : i # j => q[i] # q[j]

(* the handles of HS were constructed on p1 with options o (autoSave off),
   nothing was stored for p1, and add has been called once for each entry
   of st *)
DrawnInit(st, o, HS) ==
  /\ globalCache = [p \in Paths |-> IF p = "p1" THEN 1 ELSE 0]
  /\ heap = <<[dirty |-> Len(st) > 0, store |-> st]>>
  /\ handles = [h \in Handles |->
                  IF h \in HS
                  THEN unLock([live |-> TRUE, path |-> "p1", autoSave |-> o.autoSave,
                               maxFileSizeMB |-> o.maxFileSizeMB, cache |-> 1,
                               lockGen |-> NewLocker.lockGen,
                               lockResolved |-> NewLocker.lockResolved])
                  ELSE NoHandle]
  /\ timers = {}
  /\ debounceCache = [p \in Paths |-> 0]
  /\ disk = [p \in Paths |-> NoFile]
  /\ adds = {}
  /\ searches = {}
  /\ parserCalls = Len(st)
  /\ saveCalls = 0
  /\ burstRequests = [p \in Paths |-> 0]
  /\ burstCalls = [p \in Paths |-> 0]
  /\ written = [p \in Paths |-> <<>>]
  /\ restarts = 0
  /\ lastOp = [op |-> "init"]

(* autoSave off, the default size bound *)
ManualOptions == {[autoSave |-> FALSE, maxFileSizeMB |-> 0]}

(***************************************************************************)
(* SpecEvict: the size bound of the snapshot                               *)
(***************************************************************************)
EvictContents == {AllContents[i] : i \in 1..MaxEvictEntries}

EvictOptions == {[autoSave |-> FALSE, maxFileSizeMB |-> 19],
                 [autoSave |-> FALSE, maxFileSizeMB |-> 38],
                 [autoSave |-> FALSE, maxFileSizeMB |-> 0]}

EvictStores ==
  UNION {StoresOver(perm, {[vector |-> <<1, 0>>, metadata |-> Undefined]}) :
           perm \in {q \in Arrangements(EvictContents, MaxEvictEntries) : Distinct(q)}}

InitEvict == \E st \in EvictStores, o \in EvictOptions : DrawnInit(st, o, {"h1"})

NextEvict ==
  \/ Mutate({"h1"}, {"a"}, {Undefined}, {<<1, 0>>}, MaxEvictEntries + 1, MaxSaves)
  \/ Persist({"h1"}, MaxSaves)

SpecEvict == InitEvict /\ [][NextEvict]_vars

(***************************************************************************)
(* SpecReadd: documents of a drawn index are added again, with a vector    *)
(* the drawn index does not hold, while writes with eviction run           *)
(***************************************************************************)
ReaddVector == <<0, 1>>

NextReadd ==
  \/ Mutate({"h1"}, {"a"}, {Undefined}, {ReaddVector}, MaxEvictEntries + 1, MaxSaves)
  \/ Persist({"h1"}, MaxSaves)

SpecReadd == InitEvict /\ [][NextReadd]_vars

(***************************************************************************)
(* SpecRace: adds of one content whose parser calls overlap, with remove   *)
(* and clear in between. The k-th call of add passes the k-th metadata of   *)
(* RaceMetas, which tells the calls apart in the record that is stored.     *)
(***************************************************************************)
MaxRaceCalls == 3
MaxRaceAdds == 2

RaceMetas == <<"m1", "m2", "m3", "m4">>

NextRace ==
  \/ Construct("h1", "p1", FALSE, 0)
  \/ /\ ParserRoom(MaxRaceCalls)
     /\ Cardinality(adds) < MaxRaceAdds
     /\ AddCall("h1", "a", RaceMetas[parserCalls + 1])
  \/ \E a \in adds, vector \in Vectors : AddResolve(a, vector)
  \/ Remove("h1", "a")
  \/ Clear("h1")

SpecRace == Init /\ [][NextRace]_vars

(***************************************************************************)
(* SpecRewrite: searches while writes with eviction are scheduled and run  *)
(***************************************************************************)
NextRewrite ==
  \/ Persist({"h1"}, MaxSaves)
  \/ Search({"h1"}, {"a", "zz"}, {NoK}, {NoFilter}, {<<1, 0>>}, MaxEvictEntries + MaxSearchParses)

SpecRewrite == InitEvict /\ [][NextRewrite]_vars

(***************************************************************************)
(* SpecSave: two handles on p1 with a document that is not saved yet;      *)
(* bursts of save()                                                        *)
(***************************************************************************)
SaveStores == StoresOver(<<"a">>, {[vector |-> <<1, 0>>, metadata |-> Undefined]})

InitSave == \E st \in SaveStores, o \in ManualOptions : DrawnInit(st, o, Handles)

NextSave ==
  \/ Mutate(Handles, {"a"}, {Undefined}, {<<1, 0>>}, MaxParserCalls, MaxBurstSaves)
  \/ Persist(Handles, MaxBurstSaves)

SpecSave == InitSave /\ [][NextSave]_vars

(***************************************************************************)
(* SpecGate: two handles on p1 with a document that is not saved yet;      *)
(* searches meet bursts of save()                                          *)
(***************************************************************************)
NextGate ==
  \/ Persist(Handles, MaxBurstSaves)
  \/ Search(Handles, {"a", "zz"}, {NoK}, {NoFilter}, {<<1, 0>>}, MaxParserCalls)

SpecGate == InitSave /\ [][NextGate]_vars

(***************************************************************************)
(* SpecSearch: similaritySearch over stores of up to MaxSearchEntries      *)
(***************************************************************************)
SearchVectors == {<<1, 0>>, <<3, 4>>, <<-1, 0>>}

SearchEntries == {[vector |-> <<1, 0>>, metadata |-> Undefined],
                  [vector |-> <<3, 4>>, metadata |-> "m1"],
                  [vector |-> <<-1, 0>>, metadata |-> "m1"]}

SearchStores ==
  UNION {StoresOver(SubSeq(AllContents, 1, n), SearchEntries) :
           n \in 0..MaxSearchEntries}

(* a query that is a stored key (of a store that is not empty), one that is not *)
SearchQueries == {"a", "zz"}

SearchKs == {NoK, <<-1>>, <<0>>, <<2>>, <<MaxSearchEntries + 2>>}

SearchFilters == {NoFilter, "hasMeta", "notA"}

InitSearch == \E st \in SearchStores, o \in ManualOptions : DrawnInit(st, o, {"h1"})

NextSearch ==
  Search({"h1"}, SearchQueries, SearchKs, SearchFilters, SearchVectors,
         count("h1") + MaxSearchParses)

SpecSearch == InitSearch /\ [][NextSearch]_vars

(***************************************************************************)
(* SpecZero: similaritySearch when vectors of zero norm are stored or      *)
(* given as the query                                                      *)
(***************************************************************************)
(* a vector of non-zero norm, the zero vector of its dimension, and the
   empty array *)
ZeroVectors == {<<1, 0>>, <<0, 0>>, <<>>}

ZeroStores ==
  UNION {StoresOver(SubSeq(AllContents, 1, n),
                    {[vector |-> v, metadata |-> Undefined] : v \in ZeroVectors}) :
           n \in 0..MaxZeroEntries}

InitZero == \E st \in ZeroStores, o \in ManualOptions : DrawnInit(st, o, {"h1"})

NextZero ==
  Search({"h1"}, SearchQueries, {NoK}, {NoFilter}, ZeroVectors,
         count("h1") + MaxSearchParses)

SpecZero == InitZero /\ [][NextZero]_vars

(***************************************************************************)
(* SpecCosine: cosineSimilarity of two non-zero vectors of one dimension,  *)
(* in the arithmetic of doubles                                            *)
(***************************************************************************)
CosineVectors ==
  {<<1, 0, 0>>, <<0, 1, 0>>, <<1, 1, 0>>, <<1, 1, 1>>, <<-1, -1, -1>>, <<2, 2, 2>>,
   <<1, 2, 3>>, <<2, 3, 0>>, <<3, 4, 0>>}

InitCosine ==
  /\ globalCache = [p \in Paths |-> 0]
  /\ heap = <<>>
  /\ handles = [h \in Handles |-> NoHandle]
  /\ timers = {}
  /\ debounceCache = [p \in Paths |-> 0]
  /\ disk = [p \in Paths |-> NoFile]
  /\ adds = {}
  /\ searches = {}
  /\ parserCalls = 0
  /\ saveCalls = 0
  /\ burstRequests = [p \in Paths |-> 0]
  /\ burstCalls = [p \in Paths |-> 0]
  /\ written = [p \in Paths |-> <<>>]
  /\ restarts = 0
  /\ \E a \in CosineVectors, b \in CosineVectors : lastOp = [op |-> "vectors", a |-> a, b |-> b]

(* cosineSimilarity is called with the two vectors drawn *)
CosineCall ==
  /\ lastOp.op = "vectors"
  /\ lastOp' = [op |-> "cosine", a |-> lastOp.a, b |-> lastOp.b,
                real |-> cosineSimilarity(lastOp.a, lastOp.b),
                score |-> cosineSimilarityDouble(lastOp.a, lastOp.b)]
  /\ UNCHANGED <<globalCache, heap, handles, timers, debounceCache, disk, adds, searches,
                 parserCalls, saveCalls, burstRequests, burstCalls, written, restarts>>

NextCosine == CosineCall

SpecCosine == InitCosine /\ [][NextCosine]_vars

(***************************************************************************)
(* SpecKeys: two handles on two storagePaths, p1 and p2, both with         *)
(* autoSave                                                                *)
(***************************************************************************)
KeyPath == [h \in Handles |-> IF h = "h1" THEN "p1" ELSE "p2"]

NextKeys ==
  \/ \E h \in Handles :
       /\ HandleInOrder(h)
       /\ Construct(h, KeyPath[h], TRUE, 0)
  \/ Mutate(Handles, {"a"}, {Undefined}, {<<1, 0>>}, MaxParserCalls, MaxBurstSaves)
  \/ Persist(Handles, MaxBurstSaves)

SpecKeys == Init /\ [][NextKeys]_vars

(***************************************************************************)
(* Properties                                                              *)
(***************************************************************************)
LiveHandles == {h \in Handles : handles[h].live}

(* C1: two live handles constructed with the same storagePath read the same
   backing map: in every reachable state, so after any sequence of add,
   remove and clear on either of them, count() and getAll() give the same
   result on both. *)
SharedBackingMap ==
  \A g, h \in LiveHandles :
    handles[g].path = handles[h].path =>
      /\ count(g) = count(h)
      /\ getAll(g) = getAll(h)

(* C1, the case: h2 has just added to, removed from or cleared the map that
   h1 was constructed on first, and the map has held documents *)
SharedBackingMapWitness ==
  /\ LiveHandles = Handles
  /\ handles["h1"].path = handles["h2"].path
  /\ lastOp.op \in {"add", "remove", "clear"}
  /\ lastOp.h = "h2"
  /\ \/ lastOp.op = "add" /\ count("h1") = 2
     \/ lastOp.op = "remove" /\ lastOp.deleted /\ count("h1") = 1
     \/ lastOp.op = "clear" /\ lastOp.nonEmpty /\ count("h1") = 0

(* C2: an add of content that is already stored leaves count() as it was, and
   the value it returns and the stored record both carry the vector the
   parser gave to this call and this call's metadata. *)
ReAddLastWriteWins ==
  (lastOp.op = "add" /\ lastOp.hadKey) =>
    LET stored == MapGet(CacheOf(lastOp.h).store, lastOp.content)
    IN /\ count(lastOp.h) = lastOp.countBefore
       /\ lastOp.returned.vector = lastOp.parsed
       /\ lastOp.returned.document.content = lastOp.content
       /\ lastOp.returned.document.metadata = lastOp.metadata
       /\ stored.vector = lastOp.parsed
       /\ stored.metadata = lastOp.metadata

(* C2, the case: the second add of a content came with another vector and
   other metadata than the first *)
ReAddLastWriteWinsWitness ==
  /\ lastOp.op = "add"
  /\ lastOp.hadKey
  /\ lastOp.previous[1].vector # lastOp.parsed
  /\ lastOp.previous[1].metadata # lastOp.metadata

(* the handle has just been constructed by a process whose registry did not
   hold its path, and the adapter held a snapshot for the path *)
LoadedSnapshot ==
  /\ lastOp.op = "construct"
  /\ ~lastOp.attached
  /\ lastOp.path # ""
  /\ lastOp.file.exists

(* C3: a handle constructed on a path by a new process, after a save() whose
   write reached the adapter, holds the saved entries: count() is the number
   of entries of the array last passed to the adapter, and getAll() gives
   each of them with the content and the metadata it was saved with. *)
RoundTripIdentical ==
  LoadedSnapshot =>
    LET saved == written[lastOp.path]
    IN /\ count(lastOp.h) = Len(saved)
       /\ \A i \in 1..Len(saved) :
            /\ getAll(lastOp.h)[i].content = saved[i][1]
            /\ getAll(lastOp.h)[i].metadata = saved[i][3]

(* C3, the failing case: a document saved without metadata comes back with
   the metadata null *)
RoundTripNullMetadata ==
  /\ LoadedSnapshot
  /\ Len(written[lastOp.path]) >= 1
  /\ written[lastOp.path][1][3] = Undefined
  /\ count(lastOp.h) = Len(written[lastOp.path])
  /\ getAll(lastOp.h)[1].content = written[lastOp.path][1][1]
  /\ getAll(lastOp.h)[1].metadata = Null

(* a search has just resolved; the map is the one it read *)
IsSearch == lastOp.op = "search"

SearchedStore == CacheOf(lastOp.h).store

(* the stored entries the search's filter lets through, by position *)
CandidateSet ==
  {i \in 1..Len(SearchedStore) :
     ApplyFilter(lastOp.filter, Documents(SearchedStore)[i])}

(* the score of the stored entry at position i against the search's query *)
ScoreOf(i) == cosineSimilarity(lastOp.queryVector, SearchedStore[i].vector)

(* the position in the map of the i-th result *)
ResultPosition(i) == IndexOf(SearchedStore, lastOp.results[i].content)

(* every result is a stored document with its metadata and its score, and
   none is returned twice *)
ResultsAreCandidates ==
  /\ \A i \in 1..Len(lastOp.results) :
       /\ MapHas(SearchedStore, lastOp.results[i].content)
       /\ ResultPosition(i) \in CandidateSet
       /\ lastOp.results[i].metadata = SearchedStore[ResultPosition(i)].metadata
       /\ ScoreEq(lastOp.results[i].score, ScoreOf(ResultPosition(i)))
  /\ \A i, j \in 1..Len(lastOp.results) :
       i # j => lastOp.results[i].content # lastOp.results[j].content

(* no candidate that was left out scores above one that was returned *)
ResultsAreTop ==
  \A c \in CandidateSet \ {ResultPosition(i) : i \in 1..Len(lastOp.results)} :
    \A i \in 1..Len(lastOp.results) : ~ScoreLess(lastOp.results[i].score, ScoreOf(c))

(* C4: a search called without k returns what k = 4 returns: at most 4
   results, and 4 of them when more than 4 candidates are stored. *)
DefaultKIsFour ==
  (IsSearch /\ lastOp.k = NoK) =>
    Len(lastOp.results) = Min(4, Cardinality(CandidateSet))

(* C4, the failing case: a search without k over five stored documents
   returns all five *)
SearchWithoutKReturnsAll ==
  /\ IsSearch
  /\ lastOp.k = NoK
  /\ lastOp.filter = NoFilter
  /\ Len(SearchedStore) = 5
  /\ Len(lastOp.results) = 5

(* C5: a search with k >= 1 returns min(k, number of candidates) results, in
   order of non-increasing score, and no candidate left out scores strictly
   above a returned one. *)
TopKOrdered ==
  (IsSearch /\ lastOp.k # NoK /\ lastOp.k[1] >= 1) =>
    /\ Len(lastOp.results) = Min(lastOp.k[1], Cardinality(CandidateSet))
    /\ \A i \in 1..(Len(lastOp.results) - 1) :
         ~ScoreLess(lastOp.results[i].score, lastOp.results[i + 1].score)
    /\ ResultsAreCandidates
    /\ ResultsAreTop

(* C5, the case: k = 2 over five stored documents of three different scores,
   the two returned score differently and a document that scores lower is
   left out *)
TopKOrderedWitness ==
  /\ IsSearch
  /\ lastOp.k = <<2>>
  /\ lastOp.filter = NoFilter
  /\ Len(SearchedStore) = 5
  /\ Len(lastOp.results) = 2
  /\ ScoreLess(lastOp.results[2].score, lastOp.results[1].score)
  /\ \E c \in CandidateSet : ScoreLess(ScoreOf(c), lastOp.results[2].score)

(* C6: a search with k <= 0 returns the empty sequence, whatever is stored. *)
NonPositiveKEmpty ==
  (IsSearch /\ lastOp.k # NoK /\ lastOp.k[1] <= 0) => lastOp.results = <<>>

(* C6, the failing case: k = -1 over three stored documents returns two, all
   but the lowest-ranked *)
NegativeKReturnsAllButLast ==
  /\ IsSearch
  /\ lastOp.k = <<-1>>
  /\ lastOp.filter = NoFilter
  /\ Len(SearchedStore) = 3
  /\ Len(lastOp.results) = 2

(* C7: a search with a filter returns only stored documents the filter
   accepts, and ranks and cuts to k after filtering: it returns min(k, number
   of accepted documents) of them (all of them without k), none of the
   accepted documents left out scores above a returned one; and the filter
   was called once for each stored entry. *)
FilterBeforeRank ==
  (IsSearch /\ lastOp.filter # NoFilter /\ (lastOp.k = NoK \/ lastOp.k[1] >= 1)) =>
    /\ \A i \in 1..Len(lastOp.results) :
         ApplyFilter(lastOp.filter, [content |-> lastOp.results[i].content,
                                     metadata |-> lastOp.results[i].metadata])
    /\ Len(lastOp.results) =
         IF lastOp.k = NoK THEN Cardinality(CandidateSet)
         ELSE Min(lastOp.k[1], Cardinality(CandidateSet))
    /\ ResultsAreCandidates
    /\ ResultsAreTop
    /\ lastOp.filterCalls = Len(SearchedStore)

(* C7, the case: k = 2 with a filter, two accepted documents are returned
   although a document the filter rejects scores above both, and a third
   accepted document is cut *)
FilterBeforeRankWitness ==
  /\ IsSearch
  /\ lastOp.filter = "hasMeta"
  /\ lastOp.k = <<2>>
  /\ Len(lastOp.results) = 2
  /\ Cardinality(CandidateSet) >= 3
  /\ \E i \in 1..Len(SearchedStore) :
       /\ i \notin CandidateSet
       /\ ScoreLess(lastOp.results[1].score, ScoreOf(i))

(* the task save() scheduled has just run *)
IsWrite == lastOp.op = "write"

WriteBound == MaxSizeBytes(handles[lastOp.h].maxFileSizeMB)

(* the last n entries of the map the task found, serialized *)
WriteSuffix(n) ==
  SubSeq(SerializeStore(lastOp.before), Len(lastOp.before) - n + 1, Len(lastOp.before))

WriteFits(n) == ByteLength(JsonStringify(WriteSuffix(n))) <= WriteBound

(* the task found a map whose serialization exceeds the bound *)
WriteOverflowed == Len(lastOp.before) > 0 /\ ~WriteFits(Len(lastOp.before))

(* the largest number of most recently inserted entries that fit the bound *)
LongestFit ==
  LET fitting == {n \in 1..Len(lastOp.before) : WriteFits(n)}
  IN IF fitting = {} THEN 0 ELSE CHOOSE n \in fitting : \A m \in fitting : m <= n

(* C8: when the serialized map exceeds the byte bound at the time the write
   runs, the array passed to the adapter and the map afterwards both hold
   exactly the longest suffix of the insertion-ordered entries that fits the
   bound, and every earlier entry is in neither. *)
SizeBoundEviction ==
  (IsWrite /\ WriteOverflowed) =>
    /\ lastOp.passed = WriteSuffix(LongestFit)
    /\ SerializeStore(CacheOf(lastOp.h).store) = WriteSuffix(LongestFit)
    /\ \A i \in 1..(Len(lastOp.before) - LongestFit) :
         /\ ~MapHas(CacheOf(lastOp.h).store, lastOp.before[i].content)
         /\ \A j \in 1..Len(lastOp.passed) : lastOp.passed[j][1] # lastOp.before[i].content

(* C8, the case: three entries exceed the bound, the last two fit it; the
   write reached the adapter *)
SizeBoundEvictionWitness ==
  /\ IsWrite
  /\ lastOp.ok
  /\ WriteOverflowed
  /\ Len(lastOp.before) = 3
  /\ LongestFit = 2
  /\ count(lastOp.h) = 2

(* the timers that are set for a key *)
TimersOf(key) == {t \in timers : t.key = key}

(* C9: of the save requests for one storagePath that follow each other
   within the delay, only the task scheduled last is pending, the earlier
   ones are cancelled; the scheduled task runs at most once, and it has run
   exactly once when no timer is left for the path; the task that runs is
   the one scheduled last. *)
DebounceCoalesces ==
  /\ \A key \in Paths :
       /\ Cardinality(TimersOf(key)) <= 1
       /\ \A t \in TimersOf(key) : t.id = debounceCache[key]
       /\ burstCalls[key] <= 1
       /\ burstRequests[key] >= 1 => (TimersOf(key) = {} <=> burstCalls[key] = 1)
  /\ IsWrite => lastOp.timer = debounceCache[lastOp.path]

(* C9, the case: two save requests for p1 within the delay, and the one
   write that followed them has run *)
DebounceCoalescesWitness ==
  /\ IsWrite
  /\ lastOp.path = "p1"
  /\ burstRequests["p1"] = 2
  /\ burstCalls["p1"] = 1
  /\ TimersOf("p1") = {}

(* C10: once the write scheduled on a handle has run (completed or failed),
   every promise save() returned on that handle is resolved, also the one
   of a save() that was called while an earlier one was pending. *)
BothSavesResolve ==
  IsWrite =>
    \A gen \in 0..handles[lastOp.h].lockGen : gen \in handles[lastOp.h].lockResolved

(* C10, the failing case: save() was called twice on the handle within the
   delay, the one write has run, and the promise of the first call is not
   resolved while that of the second is; nothing is left that resolves it *)
FirstSavePromiseOrphaned ==
  /\ IsWrite
  /\ burstRequests[lastOp.path] = 2
  /\ TimersOf(lastOp.path) = {}
  /\ handles[lastOp.h].lockGen = 3
  /\ 2 \notin handles[lastOp.h].lockResolved
  /\ 3 \in handles[lastOp.h].lockResolved

(* the searches of a handle that wait for the promise of its gate *)
GateWaiters(h) == {sr \in searches : sr.h = h /\ sr.stage = "gate"}

(* C11: a search that waits on the gate of a handle during an in-flight save
   is released when the write scheduled on that handle has run, also when
   save() locked the gate again before the write ran. *)
GateWaitersReleased ==
  IsWrite =>
    \A sr \in GateWaiters(lastOp.h) : sr.gen \in handles[lastOp.h].lockResolved

(* C11, the failing case: a search began to wait after the first save(), a
   second save() locked the gate again, the one write has run and released
   the gate, no timer is left, and the search still waits on the promise of
   the first lock, which nothing resolves any more *)
GateWaiterOrphaned ==
  /\ IsWrite
  /\ TimersOf(lastOp.path) = {}
  /\ handles[lastOp.h].lockGen = 3
  /\ 3 \in handles[lastOp.h].lockResolved
  /\ \E sr \in GateWaiters(lastOp.h) :
       /\ sr.gen = 2
       /\ sr.gen \notin handles[lastOp.h].lockResolved

(* the promises of the gate of h that this step resolves *)
ResolvedByStep(h) == handles'[h].lockResolved \ handles[h].lockResolved

(* C12: the promise a save() of a dirty store returned is not resolved while
   the timer that save() set is pending, and it is resolved only by the step
   in which the write task of its storagePath runs to its end (the adapter's
   save returned or threw), after which no timer is pending for the path. *)
SavePromiseAfterWrite ==
  /\ [](\A t \in timers :
          handles[t.owner].lockGen \notin handles[t.owner].lockResolved)
  /\ [][\A h \in LiveHandles : \A gen \in ResolvedByStep(h) :
          /\ gen = handles[h].lockGen
          /\ lastOp'.op = "write"
          /\ lastOp'.h = h
          /\ lastOp'.path = handles[h].path
          /\ lastOp'.ok \in BOOLEAN
          /\ \A t \in timers' : t.key # handles[h].path]_vars

(* C12: a write that the adapter accepted has run and has resolved the
   promise of the one save() of its handle *)
SavePromiseAfterWriteWitness ==
  /\ IsWrite
  /\ lastOp.ok
  /\ handles[lastOp.h].lockGen = 2
  /\ handles[lastOp.h].lockResolved = {0, 1, 2}
  /\ timers = {}

(* the last step was a write in which the adapter's save threw *)
IsFailedWrite == IsWrite /\ ~lastOp.ok

(* C13: when the adapter's save throws in the scheduled write, the dirty flag
   stays true, the gate is released and with it the promise of the save()
   that scheduled the write is resolved, and a save() called next on that
   handle locks the gate and sets a timer again, whose write task calls the
   adapter. *)
FailedWriteKeepsDirty ==
  /\ [](IsFailedWrite =>
          /\ CacheOf(lastOp.h).dirty
          /\ handles[lastOp.h].lockGen \in handles[lastOp.h].lockResolved
          /\ SaveSchedules(lastOp.h, CacheOf(lastOp.h).dirty))
  /\ [][(IsFailedWrite /\ lastOp'.op = "save" /\ lastOp'.h = lastOp.h) =>
          /\ lastOp'.promise = handles[lastOp.h].lockGen + 1
          /\ lastOp'.promise \notin handles'[lastOp.h].lockResolved
          /\ \E t \in timers' : t.key = lastOp.path /\ t.owner = lastOp.h]_vars

(* C13: save() was called again after the only write so far failed: nothing
   is stored for the path, the promise of the first save() is resolved, and
   the second save() has set a timer *)
FailedWriteKeepsDirtyWitness ==
  /\ lastOp.op = "save"
  /\ lastOp.promise = 3
  /\ 2 \in handles[lastOp.h].lockResolved
  /\ CacheOf(lastOp.h).dirty
  /\ ~disk[handles[lastOp.h].path].exists
  /\ \E t \in timers : t.owner = lastOp.h

(* the guard of save() sends the call back: the store is clean or the handle
   has the empty storagePath *)
SaveReturnsEarly(h) == ~CacheOf(h).dirty \/ handles[h].path = ""

(* C14: save() on a clean store or on a handle with the empty storagePath
   returns a resolved promise and changes nothing: the gate, the timers, the
   adapter's data, the map and the dirty flag are as before; no timer is ever
   set for the empty path and the gate of such a handle is never locked; and
   after a write the adapter accepted the dirty flag is false. *)
SaveNoOpWhenCleanOrNoPath ==
  /\ [][(lastOp'.op = "save" /\ SaveReturnsEarly(lastOp'.h)) =>
          /\ lastOp'.promise \in handles[lastOp'.h].lockResolved
          /\ UNCHANGED <<globalCache, heap, handles, timers, debounceCache, disk,
                         saveCalls, burstRequests, burstCalls, written>>]_vars
  /\ [](/\ \A t \in timers : t.key # ""
        /\ \A h \in LiveHandles :
             handles[h].path = "" => handles[h].lockGen \in handles[h].lockResolved
        /\ (IsWrite /\ lastOp.ok) => ~CacheOf(lastOp.h).dirty)

(* C14: save() was called on a handle with the empty storagePath whose store
   holds a document that was never written, and returned the resolved promise *)
SaveNoOpWhenCleanOrNoPathWitness ==
  /\ lastOp.op = "save"
  /\ lastOp.promise = 0
  /\ handles[lastOp.h].path = ""
  /\ CacheOf(lastOp.h).dirty
  /\ count(lastOp.h) = 1
  /\ timers = {}

(* C15: add succeeds only when the parser's result is an array of numbers;
   with any other result it fails and stores nothing. *)
AddRejectsNonNumbers ==
  lastOp.op = "add" => lastOp.parsed \notin MixedArrays

(* C15, the failing case: the parser resolved with an array that holds an
   element that is not a number, add returned it, and the map holds it under
   the document's key with the dirty flag set *)
AddStoredNonNumber ==
  /\ lastOp.op = "add"
  /\ lastOp.parsed \in MixedArrays
  /\ lastOp.returned.vector \in MixedArrays
  /\ MapHas(CacheOf(lastOp.h).store, lastOp.content)
  /\ MapGet(CacheOf(lastOp.h).store, lastOp.content).vector \in MixedArrays
  /\ CacheOf(lastOp.h).dirty

(* the step settles a call whose parser threw *)
ParserThrewInStep == lastOp'.op \in {"addRejected", "searchRejected"}

(* C16: when the parser throws, add and a similaritySearch whose query is no
   stored key are settled with the parser's error; the map and the dirty
   flag, the gate, the timers and the adapter's data are as before, and the
   parser is not called again by that step. *)
ParserErrorLeavesState ==
  [][ParserThrewInStep =>
       /\ lastOp'.error \in ParserErrors
       /\ lastOp'.op = "addRejected" =>
            /\ \E a \in adds : a.h = lastOp'.h /\ a.content = lastOp'.content
                               /\ adds' = adds \ {a}
            /\ searches' = searches
       /\ lastOp'.op = "searchRejected" =>
            /\ \E sr \in searches : sr.h = lastOp'.h /\ sr.query = lastOp'.query
                                    /\ sr.stage = "parser"
                                    /\ searches' = searches \ {sr}
            /\ adds' = adds
       /\ UNCHANGED <<globalCache, heap, handles, timers, debounceCache, disk,
                      parserCalls, saveCalls, burstRequests, burstCalls, written>>]_vars

(* C16: the parser threw in a search for a query that is no stored key,
   while the store holds a document and a write is scheduled *)
ParserErrorLeavesStateWitness ==
  /\ lastOp.op = "searchRejected"
  /\ lastOp.error \in ParserErrors
  /\ ~MapHas(CacheOf(lastOp.h).store, lastOp.query)
  /\ count(lastOp.h) = 1
  /\ CacheOf(lastOp.h).dirty
  /\ searches = {}

(* the last step constructed the first handle of a storagePath that is not
   empty: initializeStore made a StoreCache and called load() *)
IsFirstConstruct ==
  lastOp.op = "construct" /\ ~lastOp.attached /\ lastOp.path # ""

(* an element of the loaded array that is no [content, vector, metadata] *)
MalformedAt(file, i) == i \in file.data.nulls \/ Len(file.data.json[i]) # 3

Malformed(file) == file.exists /\ \E i \in 1..Len(file.data.json) : MalformedAt(file, i)

(* C17: when the adapter's exists or load throws, when the loaded array is
   malformed part-way through, or when there is no snapshot, the construction
   ends with an empty map, the dirty flag false and the StoreCache registered
   for the storagePath. *)
ConstructFailOpen ==
  (IsFirstConstruct /\ (\/ lastOp.fault # NoFault
                        \/ ~lastOp.file.exists
                        \/ Malformed(lastOp.file))) =>
    /\ handles[lastOp.h].live
    /\ count(lastOp.h) = 0
    /\ ~CacheOf(lastOp.h).dirty
    /\ globalCache[lastOp.path] = handles[lastOp.h].cache

(* C17, the failing case: the snapshot holds a document followed by an empty
   array and the adapter returned; the handle is constructed with the
   document and with an entry under the key undefined *)
ConstructKeepsMalformedEntry ==
  /\ IsFirstConstruct
  /\ lastOp.fault = NoFault
  /\ Malformed(lastOp.file)
  /\ lastOp.file.data.nulls = {}
  /\ count(lastOp.h) = 2
  /\ MapHas(CacheOf(lastOp.h).store, "a")
  /\ MapHas(CacheOf(lastOp.h).store, Undefined)
  /\ ~CacheOf(lastOp.h).dirty

(* the storagePaths with a registered StoreCache *)
Registered == {p \in Paths : globalCache[p] # 0}

(* C18: load() runs in the first construction for a storagePath only: one
   StoreCache exists per registered path, every live handle still holds the
   one registered for its path (no entry of the registry was removed or
   replaced), and a construction for a path another handle was constructed
   with attaches and makes no call of the adapter. *)
RegistryLoadsOnce ==
  /\ \A h \in LiveHandles : globalCache[handles[h].path] = handles[h].cache
  /\ \A p \in Registered : globalCache[p] \in 1..Len(heap)
  /\ Len(heap) = Cardinality(Registered)
  /\ lastOp.op = "construct" =>
       /\ lastOp.attached <=>
            \E g \in LiveHandles \ {lastOp.h} : handles[g].path = lastOp.path
       /\ lastOp.attached => lastOp.adapterCalls = 0

(* C18: a second handle was constructed for a path whose snapshot the
   adapter holds; it attached to the registered state without a call of the
   adapter and counts the document *)
RegistryLoadsOnceWitness ==
  /\ lastOp.op = "construct"
  /\ lastOp.attached
  /\ lastOp.adapterCalls = 0
  /\ lastOp.file.exists
  /\ Cardinality(LiveHandles) = 2
  /\ count(lastOp.h) = 1

(* the entries of a store whose key is not `content`, in their order *)
EntriesBut(store, content) ==
  LET Other(e) == e.content # content IN SelectSeq(store, Other)

(* C20: remove(content) takes out the entry with the key content and leaves
   the other entries as they were, in their order; for a key the map does
   not have it changes nothing (map, dirty flag, gate, timers); it sets the
   dirty flag when it deleted, then locks the gate and sets a timer exactly
   under autoSave, and it never calls the adapter itself. *)
RemoveDeletesExactlyKey ==
  [][lastOp'.op = "remove" =>
       LET h == lastOp'.h
           before == heap[handles[h].cache]
           after == heap'[handles[h].cache]
           had == MapHas(before.store, lastOp'.content)
       IN /\ after.store = EntriesBut(before.store, lastOp'.content)
          /\ lastOp'.deleted = had
          /\ ~had => UNCHANGED <<globalCache, heap, handles, timers, debounceCache,
                                disk, saveCalls, burstRequests, burstCalls, written>>
          /\ had => /\ after.dirty
                    /\ Len(after.store) = Len(before.store) - 1
          /\ (had /\ handles[h].autoSave) =>
               /\ handles'[h].lockGen = handles[h].lockGen + 1
               /\ \E t \in timers' : t.key = handles[h].path /\ t.owner = h
                                     /\ t.remaining = Delay
          /\ (had /\ ~handles[h].autoSave) => UNCHANGED <<handles, timers, debounceCache>>
          /\ UNCHANGED <<disk, written, globalCache>>]_vars

(* C20: remove took one of two documents out of a store that a write had
   made clean: the other document is what is left and the flag is set *)
RemoveDeletesExactlyKeyWitness ==
  /\ lastOp.op = "remove"
  /\ lastOp.deleted
  /\ count(lastOp.h) = 1
  /\ ~MapHas(CacheOf(lastOp.h).store, lastOp.content)
  /\ CacheOf(lastOp.h).dirty
  /\ disk[handles[lastOp.h].path].exists
  /\ Len(written[handles[lastOp.h].path]) = 2

(* the contents a search returned *)
ResultContents == {lastOp.results[i].content : i \in 1..Len(lastOp.results)}

(* a search without k and filter has just resolved that its caller started
   right after the mutation `op`, with no mutation of the caller since *)
IsSearchAfter(op) ==
  /\ IsSearch
  /\ lastOp.k = NoK
  /\ lastOp.filter = NoFilter
  /\ Len(lastOp.prior) > 0
  /\ lastOp.prior[1] = op

(* count() and getAll() right after add resolved, remove or clear returned *)
MutationShownAtOnce ==
  /\ lastOp.op = "add" =>
       /\ \E i \in 1..count(lastOp.h) :
            getAll(lastOp.h)[i] = [content |-> lastOp.content, metadata |-> lastOp.metadata]
       /\ count(lastOp.h) = lastOp.countBefore + (IF lastOp.hadKey THEN 0 ELSE 1)
  /\ lastOp.op = "remove" =>
       \A i \in 1..count(lastOp.h) : getAll(lastOp.h)[i].content # lastOp.content
  /\ lastOp.op = "clear" => count(lastOp.h) = 0 /\ getAll(lastOp.h) = <<>>

(* a search started right after remove or clear *)
RemovalShownBySearch ==
  /\ IsSearchAfter("remove") => lastOp.prior[2] \notin ResultContents
  /\ IsSearchAfter("clear") => Len(lastOp.results) = 0

(* C19 as stated: count(), getAll() and a search started right after a
   mutation show the mutation, whatever the state of persistence; after add
   the search returns the added content. *)
SearchShowsLatestMutation ==
  /\ MutationShownAtOnce
  /\ RemovalShownBySearch
  /\ IsSearchAfter("add") => lastOp.prior[2] \in ResultContents

(* C19, amended: count() and getAll() show the mutation at once and a search
   started right after remove or clear shows it; a search started right
   after add returns the added content when it did not have to wait for a
   scheduled write, and when it does not return it, it waited and the content
   is no longer in the map it read after the write. *)
MutationShownUnlessEvicted ==
  /\ MutationShownAtOnce
  /\ RemovalShownBySearch
  /\ (IsSearchAfter("add") /\ ~lastOp.waited) => lastOp.prior[2] \in ResultContents
  /\ (IsSearchAfter("add") /\ lastOp.prior[2] \notin ResultContents) =>
       /\ lastOp.waited
       /\ ~MapHas(SearchedStore, lastOp.prior[2])

(* C19: a search started right after add waited for the scheduled write,
   the adapter's save threw, and the search returned the added content *)
MutationShownUnlessEvictedWitness ==
  /\ IsSearchAfter("add")
  /\ lastOp.waited
  /\ lastOp.prior[2] \in ResultContents
  /\ CacheOf(lastOp.h).dirty
  /\ ~disk[handles[lastOp.h].path].exists
  /\ timers = {}

(* C21: clear() leaves the map empty when it returns; on a map that was
   empty it changes nothing (dirty flag, gate, timers); on a map that held
   entries it sets the dirty flag, and locks the gate and sets a timer
   exactly under autoSave; it never calls the adapter itself. *)
ClearEmptiesMap ==
  [][lastOp'.op = "clear" =>
       LET h == lastOp'.h
           before == heap[handles[h].cache]
           after == heap'[handles[h].cache]
           nonEmpty == Len(before.store) > 0
       IN /\ Len(after.store) = 0
          /\ lastOp'.nonEmpty = nonEmpty
          /\ ~nonEmpty => UNCHANGED <<globalCache, heap, handles, timers, debounceCache,
                                     disk, saveCalls, burstRequests, burstCalls, written>>
          /\ nonEmpty => after.dirty
          /\ (nonEmpty /\ handles[h].autoSave) =>
               /\ handles'[h].lockGen = handles[h].lockGen + 1
               /\ \E t \in timers' : t.key = handles[h].path /\ t.owner = h
                                     /\ t.remaining = Delay
          /\ (nonEmpty /\ ~handles[h].autoSave) =>
               UNCHANGED <<handles, timers, debounceCache>>
          /\ UNCHANGED <<disk, written, globalCache>>]_vars

(* C21: clear() emptied a map of two documents that a write had made clean:
   count() is 0, the flag is set and the adapter still holds the two *)
ClearEmptiesMapWitness ==
  /\ lastOp.op = "clear"
  /\ lastOp.nonEmpty
  /\ count(lastOp.h) = 0
  /\ CacheOf(lastOp.h).dirty
  /\ disk[handles[lastOp.h].path].exists
  /\ Len(written[handles[lastOp.h].path]) = 2

(* the last durable snapshot of a storagePath as the adapter gives it: the
   array last written with success, which is also what a later load reads;
   the empty array when nothing was written or the path is empty *)
DurableSnapshot(path) ==
  IF path # "" /\ AdapterExists(disk, path) THEN AdapterLoad(disk, path) ELSE <<>>

(* the map of h is what the snapshot holds: its entries, serialised as the
   write task serialises them, are the snapshot's *)
MapMatchesSnapshot(h) ==
  JsonParse(JsonStringify(SerializeStore(CacheOf(h).store)))
    = DurableSnapshot(handles[h].path)

(* C22 as stated: the dirty flag is true exactly when the map differs from
   the last durable snapshot. *)
DirtyIffDiffers ==
  \A h \in LiveHandles : CacheOf(h).dirty <=> ~MapMatchesSnapshot(h)

(* C22, amended: while the dirty flag is false the map holds what the last
   durable snapshot holds (the flag may be true while they agree). *)
CleanMatchesSnapshot ==
  \A h \in LiveHandles : ~CacheOf(h).dirty => MapMatchesSnapshot(h)

(* C22: a handle of a new process has loaded a snapshot of one document and
   its store is clean *)
CleanMatchesSnapshotWitness ==
  /\ LoadedSnapshot
  /\ restarts = 1
  /\ ~CacheOf(lastOp.h).dirty
  /\ count(lastOp.h) = 1
  /\ Len(DurableSnapshot(lastOp.path)) = 1

(* the step is the end of a mutation that changed the map: add resolved,
   remove deleted an entry, clear emptied a map that held entries *)
MutatedInStep ==
  \/ lastOp'.op = "add"
  \/ lastOp'.op = "remove" /\ lastOp'.deleted
  \/ lastOp'.op = "clear" /\ lastOp'.nonEmpty

(* the timers the step has set *)
TimersSetInStep == {t \in timers' : t.remaining = Delay /\ t \notin timers}

(* C23: a timer for a write is set only by save() or by a mutation of a
   handle with autoSave, so with autoSave false the adapter's save runs only
   after an explicit save(); a mutation of a handle without autoSave leaves
   gate and timers alone; a mutation of a handle with autoSave (and a
   storagePath) returns with the gate locked and the timer it set pending,
   and no write has run in that step. *)
AutoSaveSchedules ==
  [][/\ \A t \in TimersSetInStep :
          /\ t.owner = lastOp'.h
          /\ t.key = handles[t.owner].path
          /\ \/ lastOp'.op = "save"
             \/ MutatedInStep /\ handles[t.owner].autoSave
     /\ lastOp'.op \in {"add", "remove", "clear"} =>
          /\ UNCHANGED <<disk, written>>
          /\ ~handles[lastOp'.h].autoSave =>
               UNCHANGED <<handles, timers, debounceCache, saveCalls>>
          /\ (MutatedInStep /\ handles[lastOp'.h].autoSave
                /\ handles[lastOp'.h].path # "") =>
               /\ \E t \in TimersSetInStep : t.owner = lastOp'.h
               /\ handles'[lastOp'.h].lockGen = handles[lastOp'.h].lockGen + 1
               /\ handles'[lastOp'.h].lockGen \notin handles'[lastOp'.h].lockResolved
               /\ saveCalls' = saveCalls + 1]_vars

(* C23: add resolved on a handle with autoSave and a storagePath: the
   document is in the map, the timer of the write is pending with its whole
   delay and nothing has reached the adapter *)
AutoSaveSchedulesWitness ==
  /\ lastOp.op = "add"
  /\ handles[lastOp.h].autoSave
  /\ handles[lastOp.h].path # ""
  /\ MapHas(CacheOf(lastOp.h).store, lastOp.content)
  /\ \E t \in timers : t.owner = lastOp.h /\ t.remaining = Delay
  /\ ~disk[handles[lastOp.h].path].exists

(* the step belongs to a similaritySearch: its call, the gate opening for
   it, its parser resolving or throwing *)
SearchInStep == lastOp'.op \in {"searchCall", "searchParse", "search", "searchRejected"}

(* C24: no step of a similaritySearch calls the adapter, changes a map or a
   dirty flag, locks or releases a gate, or sets or clears a timer; getAll()
   and count() are values of the state and take no step. *)
SearchReadsOnly ==
  [][SearchInStep =>
       /\ UNCHANGED <<globalCache, heap, handles, timers, debounceCache, disk, written,
                      saveCalls, burstRequests, burstCalls, adds>>
       /\ \A h \in LiveHandles : getAll(h)' = getAll(h) /\ count(h)' = count(h)]_vars

(* C24: a search whose query the parser embedded has resolved over a store
   with a document that was never written: the store is still dirty, nothing
   is scheduled and the adapter holds nothing *)
SearchReadsOnlyWitness ==
  /\ IsSearch
  /\ lastOp.parsed
  /\ Len(lastOp.results) = 1
  /\ CacheOf(lastOp.h).dirty
  /\ timers = {}
  /\ ~disk[handles[lastOp.h].path].exists
  /\ handles[lastOp.h].lockGen = 1

IsFactory == lastOp.op = "factory"

FactoryMin == IF lastOp.env = "node" THEN NodeMinTenths ELSE BrowserMinTenths

FactoryMax == IF lastOp.env = "node" THEN NodeMaxTenths ELSE BrowserMaxTenths

FactoryDefault == IF lastOp.env = "node" THEN NodeDefaultTenths ELSE BrowserDefaultTenths

(* C25: whatever value of maxFileSizeMB a factory is given, it constructs
   the index with a number of its range [1, 1000] or [0.1, 3]: the value
   itself when it lies in the range, the nearer bound otherwise, and the
   default 500 or 3 when none is given. *)
FactoryClamps ==
  IsFactory =>
    /\ lastOp.passed.kind = "number"
    /\ lastOp.passed.tenths \in FactoryMin..FactoryMax
    /\ lastOp.supplied.kind = "omitted" => lastOp.passed.tenths = FactoryDefault
    /\ lastOp.supplied.kind = "number" =>
         lastOp.passed.tenths = Max(FactoryMin, Min(FactoryMax, lastOp.supplied.tenths))

(* C25, the failing case: the browser factory is given maxFileSizeMB:
   undefined under the key; it constructs the index with NaN, for which the
   index takes 500 MB, above the factory's upper bound *)
FactoryPassesNaN ==
  /\ IsFactory
  /\ lastOp.env = "browser"
  /\ lastOp.supplied.kind = "undefined"
  /\ lastOp.passed.kind = "nan"
  /\ EffectiveTenths(lastOp.passed) > BrowserMaxTenths

(* C26: the adapter returns what it was given: after a save under a key
   that returned, exists of the key is true and load of the key gives records
   equal to those saved, in their order; a key nothing was saved under does
   not exist and loads as the empty array. *)
AdapterRoundTrip ==
  /\ \A p \in Paths : ~AdapterExists(disk, p) => AdapterLoad(disk, p) = <<>>
  /\ \A p \in Paths : written[p] # <<>> => AdapterExists(disk, p)
  /\ (lastOp.op = "write" /\ lastOp.ok) =>
       /\ AdapterExists(disk, lastOp.path)
       /\ AdapterLoad(disk, lastOp.path) = lastOp.passed

(* C26, the failing case: the write task saved a record whose metadata
   element is undefined, and load of the key gives that record with null
   in its place *)
AdapterLoadsNullForUndefined ==
  /\ lastOp.op = "write"
  /\ lastOp.ok
  /\ Len(lastOp.passed) >= 1
  /\ lastOp.passed[1][3] = Undefined
  /\ Len(AdapterLoad(disk, lastOp.path)) = Len(lastOp.passed)
  /\ AdapterLoad(disk, lastOp.path)[1][1] = lastOp.passed[1][1]
  /\ AdapterLoad(disk, lastOp.path)[1][2] = lastOp.passed[1][2]
  /\ AdapterLoad(disk, lastOp.path)[1][3] = Null

(* a[i] * a[i] summed is 0: every component is 0, or there is none *)
ZeroNorm(v) == DotLoop(v, v, 1) = 0

(* C27: a search resolves, and every result whose stored vector has zero
   norm, and every result of a query vector of zero norm, has the score 0
   exactly. *)
ZeroNormScoresZero ==
  lastOp.op = "search" =>
    \A i \in 1..Len(lastOp.results) :
      (ZeroNorm(lastOp.queryVector) \/ ZeroNorm(SearchedStore[ResultPosition(i)].vector)) =>
        lastOp.results[i].score = Zero

(* C27, the failing case: the query vector is [1, 0] and a stored vector is
   the empty array; the search resolves and that entry's score is NaN *)
EmptyVectorScoresNaN ==
  /\ lastOp.op = "search"
  /\ lastOp.queryVector = <<1, 0>>
  /\ \E i \in 1..Len(lastOp.results) :
       /\ SearchedStore[ResultPosition(i)].vector = <<>>
       /\ lastOp.results[i].score = NaN

IsCosine == lastOp.op = "cosine"

(* the score is 1 *)
ScoreIsOne(score) == ~score.zero /\ ~score.negative /\ score.magnitude = DoubleOne

(* C28: the score of two non-zero vectors of one dimension lies in [-1, 1],
   and the score of a vector against itself is 1; so a search for a stored
   key with a non-zero vector gives that entry the score 1 and gives no
   result a higher one. *)
CosineWithinBounds ==
  IsCosine =>
    /\ lastOp.score.zero \/ ~DoubleLess(DoubleOne, lastOp.score.magnitude)
    /\ lastOp.a = lastOp.b => ScoreIsOne(lastOp.score)

(* C28, the failing case: the vector [1, 1, 1] against itself, as a search
   for its stored key scores it: the score is above 1 *)
SelfScoreAboveOne ==
  /\ IsCosine
  /\ lastOp.a = <<1, 1, 1>>
  /\ lastOp.b = <<1, 1, 1>>
  /\ ~lastOp.score.zero
  /\ ~lastOp.score.negative
  /\ DoubleLess(DoubleOne, lastOp.score.magnitude)

(* C29: an add of a content that is already a key of the map does not call
   the vector parser: the count of parser calls is the same after the call
   of add as before it. *)
DuplicateAddSkipsParser ==
  [][\A a \in adds' \ adds :
       MapHas(CacheOf(a.h).store, a.content) => parserCalls' = parserCalls]_vars

(* C29, the failing case: an add of a stored content has resolved with a
   vector the parser returned for this call, which is not the stored one;
   the parser was called for the first add and for this one *)
DuplicateAddParsedAgain ==
  /\ lastOp.op = "add"
  /\ lastOp.hadKey
  /\ lastOp.previous[1].vector # lastOp.parsed
  /\ lastOp.returned.vector = lastOp.parsed
  /\ MapGet(CacheOf(lastOp.h).store, lastOp.content).vector = lastOp.parsed
  /\ parserCalls >= 2

(* the UTF-8 byte length of the JSON text of the array the write passed *)
PassedBytes == ByteLength(JsonStringify(lastOp.passed))

(* C30 as stated: every array passed to the adapter's save is empty or has
   a serialized byte length of at most the maxFileSizeMB the index was
   constructed with, whatever that value is. *)
SavedArrayFitsOption ==
  IsWrite => lastOp.passed = <<>> \/ PassedBytes <= handles[lastOp.h].maxFileSizeMB

(* C30, amended: every array passed to the adapter's save is empty or has a
   serialized byte length of at most the bound the write task computes,
   (maxFileSizeMB || 500) * 1024 * 1024: the constructed value when it is
   not 0, and 500 MB when it is 0. *)
SavedArrayFitsBound ==
  IsWrite =>
    \/ lastOp.passed = <<>>
    \/ PassedBytes <= MaxSizeBytes(handles[lastOp.h].maxFileSizeMB)

(* C30, the case: a map of three entries was over the bound the index was
   constructed with; the array passed holds what fits and is not empty *)
SavedArrayFitsBoundWitness ==
  /\ IsWrite
  /\ WriteOverflowed
  /\ handles[lastOp.h].maxFileSizeMB # 0
  /\ Len(lastOp.before) = 3
  /\ lastOp.passed # <<>>
  /\ PassedBytes <= handles[lastOp.h].maxFileSizeMB

(* C31: results of equal score are in the order of their entries in the
   map, the order of insertion: the sort is stable. *)
TiesKeepMapOrder ==
  IsSearch =>
    \A i, j \in 1..Len(lastOp.results) :
      (i < j /\ ScoreEq(lastOp.results[i].score, lastOp.results[j].score)) =>
        ResultPosition(i) < ResultPosition(j)

(* C31, the case: a search returned two entries of equal score below an
   entry of a higher score that was inserted after them *)
TiesKeepMapOrderWitness ==
  /\ IsSearch
  /\ Len(lastOp.results) >= 3
  /\ ScoreLess(lastOp.results[2].score, lastOp.results[1].score)
  /\ ScoreEq(lastOp.results[2].score, lastOp.results[3].score)
  /\ ResultPosition(1) > ResultPosition(3)
  /\ ResultPosition(2) < ResultPosition(3)

(* the search sr passes its gate, or resumes after its parser, in this step *)
SearchLeaves(sr, stage) == sr \in searches /\ sr.stage = stage /\ sr \notin searches'

(* C32: a search whose query is a stored key takes the stored vector and
   does not call the parser; any other search calls the parser once, with
   the query, and completes with the vector the parser gave. *)
SearchParsesOnlyUnknown ==
  [][\A sr \in searches :
       /\ SearchLeaves(sr, "gate") =>
            IF MapHas(CacheOf(sr.h).store, sr.query)
            THEN /\ parserCalls' = parserCalls
                 /\ lastOp'.op = "search"
                 /\ ~lastOp'.parsed
                 /\ lastOp'.queryVector = MapGet(CacheOf(sr.h).store, sr.query).vector
            ELSE /\ parserCalls' = parserCalls + 1
                 /\ [sr EXCEPT !.stage = "parser"] \in searches'
       /\ SearchLeaves(sr, "parser") =>
            /\ parserCalls' = parserCalls
            /\ lastOp'.op \in {"search", "searchRejected"}
            /\ lastOp'.op = "search" => lastOp'.parsed]_vars

(* C32, the case: a search for a stored key has returned without a call of
   the parser, after an earlier search for an unknown text that called it *)
SearchParsesOnlyUnknownWitness ==
  /\ IsSearch
  /\ ~lastOp.parsed
  /\ MapHas(SearchedStore, lastOp.query)
  /\ lastOp.queryVector = MapGet(SearchedStore, lastOp.query).vector
  /\ parserCalls = 2
  /\ count(lastOp.h) = 1

(* the step is a request to save made on a handle of the storagePath key:
   save(), or a mutation under autoSave *)
SaveRequestOn(key) ==
  /\ lastOp'.op \in {"save", "add", "remove", "clear"}
  /\ handles[lastOp'.h].path = key

(* C33: at most one write timer is pending per storagePath, and the timers
   of different storagePaths are independent: the timers of a key change
   only by a save request for that key, by the write of that key, or by the
   passing of time, which is the same for all; a save request for one key
   leaves the pending timer of another as it is. *)
TimersIndependentPerKey ==
  /\ [](\A key \in Paths : Cardinality(TimersOf(key)) <= 1)
  /\ [][\A key \in Paths :
          /\ TimersOf(key)' # TimersOf(key) =>
               \/ SaveRequestOn(key)
               \/ lastOp'.op = "write" /\ lastOp'.path = key
               \/ lastOp'.op = "tick"
          /\ debounceCache'[key] # debounceCache[key] => SaveRequestOn(key)]_vars

(* C33, the case: a save was requested for p2 while the timer of p1 was
   pending with half of its delay gone; both timers are pending, that of p1
   unchanged *)
TimersIndependentPerKeyWitness ==
  /\ lastOp.op \in {"save", "add"}
  /\ handles[lastOp.h].path = "p2"
  /\ \E t1 \in TimersOf("p1"), t2 \in TimersOf("p2") :
       /\ t1.remaining = Delay - 50
       /\ t2.remaining = Delay
       /\ t1.id < t2.id

(* a search of the handle is waiting for its parser *)
ParserPending(h) == \E sr \in searches : sr.h = h /\ sr.stage = "parser"

(* C34: no search reads a map that is in the middle of the rewrite of an
   eviction. The write task clears and rebuilds the map in one step, also
   while the parser of a search is pending: after it the map holds exactly
   the entries of the array it passed, or is untouched when nothing was
   trimmed. A search reads candidates and vectors in one step, from the map
   of that moment: it returns every entry of that map, each scored with its
   vector in that map. *)
SearchReadsWholeMap ==
  /\ (IsWrite /\ WriteOverflowed) =>
       SerializeStore(CacheOf(lastOp.h).store) = lastOp.passed
  /\ (IsWrite /\ ~WriteOverflowed) => CacheOf(lastOp.h).store = lastOp.before
  /\ IsSearch =>
       /\ ResultContents = Keys(SearchedStore)
       /\ Len(lastOp.results) = Len(SearchedStore)
       /\ \A i \in 1..Len(lastOp.results) :
            lastOp.results[i].score = ScoreOf(ResultPosition(i))

(* C34, the case: a write that trimmed a map of three entries to two ran
   while the parser of a search was pending *)
SearchReadsWholeMapWitness ==
  /\ IsWrite
  /\ WriteOverflowed
  /\ ParserPending(lastOp.h)
  /\ Len(lastOp.before) = 3
  /\ count(lastOp.h) = 2

(* the live handles on a storagePath *)
HandlesOn(path) == {h \in LiveHandles : handles[h].path = path}

(* C35: when the handles of one storagePath have called save() within one
   delay window and the one coalesced write has run, the gate of each of
   them is released: once no timer is left for the path, no handle on it has
   a locked gate, so every save() promise is resolved and a search on any of
   the handles passes its gate. *)
AllGatesReleasedAfterWrite ==
  (IsWrite /\ TimersOf(lastOp.path) = {}) =>
    \A h \in HandlesOn(lastOp.path) : handles[h].lockGen \in handles[h].lockResolved

(* C35, the failing case: h1 and then h2 called save() once each within the
   window; the one write has run, as the task of h2, and released the gate
   of h2; no timer is left, the gate of h1 is still locked by its save(),
   and a search on h1 waits for it *)
FirstHandleGateLeftLocked ==
  /\ timers = {}
  /\ burstCalls["p1"] = 1
  /\ saveCalls = 2
  /\ handles["h1"].lockGen = 2
  /\ 2 \notin handles["h1"].lockResolved
  /\ handles["h2"].lockGen = 2
  /\ 2 \in handles["h2"].lockResolved
  /\ ~CacheOf("h1").dirty
  /\ \E sr \in GateWaiters("h1") : sr.gen = 2

(* the entries of the map of h, in insertion order, as the write task
   serialises them: content, vector and metadata of each *)
MapEntries(h) == SerializeStore(CacheOf(h).store)

(* the snapshot of a storagePath the process last dealt with: the array the
   adapter last saved with success, or the array the adapter's load gives
   for the file (what a construction has loaded) *)
IsLastSnapshot(path, entries) ==
  \/ entries = written[path]
  \/ entries = DurableSnapshot(path)

(* C36: whenever the dirty flag is false the map holds, entry by entry and in
   the same order, the keys, vectors and metadata of the array last written
   with success by the adapter or loaded at construction; and after a
   successful write that evicted entries the map holds exactly the array
   that was written. *)
CleanMapIsLastSnapshot ==
  /\ \A h \in LiveHandles :
       ~CacheOf(h).dirty => IsLastSnapshot(handles[h].path, MapEntries(h))
  /\ (IsWrite /\ lastOp.ok /\ WriteOverflowed) =>
       /\ MapEntries(lastOp.h) = lastOp.passed
       /\ lastOp.passed = written[lastOp.path]

(* C36: a successful write has evicted an entry and left one in the map, and
   the store is clean *)
CleanMapIsLastSnapshotWitness ==
  /\ IsWrite
  /\ lastOp.ok
  /\ WriteOverflowed
  /\ Len(lastOp.before) = 2
  /\ count(lastOp.h) = 1
  /\ ~CacheOf(lastOp.h).dirty

(* C37 as stated: a write task whose adapter save fails leaves the map as it
   was when the task started. *)
FailedWriteKeepsMap ==
  (IsWrite /\ ~lastOp.ok) => CacheOf(lastOp.h).store = lastOp.before

(* C37, the failing case: the adapter's save has failed for a map of two
   entries that exceeded the bound, and the map now holds one of them *)
FailedWriteLostEntry ==
  /\ IsWrite
  /\ ~lastOp.ok
  /\ WriteOverflowed
  /\ Len(lastOp.before) = 2
  /\ count(lastOp.h) = 1
  /\ CacheOf(lastOp.h).dirty
  /\ written[lastOp.path] = <<>>

(* the keys of a map in insertion order *)
KeyOrder(store) == [i \in 1..Len(store) |-> store[i].content]

(* the step is an add of a content the map already holds, and it leaves the
   order of the keys as it was *)
ReaddKeepsOrder ==
  (lastOp'.op = "add" /\ lastOp'.hadKey) =>
    KeyOrder(heap'[handles[lastOp'.h].cache].store) = KeyOrder(CacheOf(lastOp'.h).store)

(* a write drops entries in the order of the map: an entry that is kept has
   every entry behind it kept as well *)
EvictsInMapOrder ==
  IsWrite =>
    \A i, j \in 1..Len(lastOp.before) :
      (i < j /\ lastOp.before[i].content \in Keys(CacheOf(lastOp.h).store))
        => lastOp.before[j].content \in Keys(CacheOf(lastOp.h).store)

(* C38: adding a content that is already stored leaves the entry at its
   position in the insertion order of the map, and eviction follows that
   order, so the entry is dropped before the entries first added after it
   although it was written last. *)
ReaddKeepsEvictionPosition == []EvictsInMapOrder /\ [][ReaddKeepsOrder]_vars

(* C38: a write has evicted the first entry of the map, which had been added
   again after the entry behind it was inserted, and has kept that later
   entry *)
ReaddKeepsEvictionPositionWitness ==
  /\ IsWrite
  /\ WriteOverflowed
  /\ Len(lastOp.before) = 2
  /\ lastOp.before[1].content = "a"
  /\ lastOp.before[1].vector = ReaddVector
  /\ lastOp.before[2].vector # ReaddVector
  /\ KeyOrder(CacheOf(lastOp.h).store) = <<lastOp.before[2].content>>

(* the step is remove or clear *)
RemovedOrCleared == lastOp'.op \in {"remove", "clear"}

(* the step is the end of an add: its parser has resolved *)
AddResolved == lastOp'.op = "add"

(* the record the map of h holds for a content after the step *)
StoredAfter(h, content) == MapGet(heap'[handles[h].cache].store, content)

(* C39: remove and clear leave every pending add pending, and an add whose
   parser resolves stores its own document and vector whatever the map holds
   then: its entry is inserted after a clear or remove that ran while the
   parser was pending, and of two overlapping adds of one content the record
   of the call that resolved last is the one stored, whichever was called
   first. *)
PendingAddWritesLast ==
  /\ RemovedOrCleared => adds' = adds
  /\ AddResolved =>
       /\ MapHas(heap'[handles[lastOp'.h].cache].store, lastOp'.content)
       /\ StoredAfter(lastOp'.h, lastOp'.content).metadata = lastOp'.metadata
       /\ StoredAfter(lastOp'.h, lastOp'.content).vector = lastOp'.parsed

PendingAddsWriteLast == [][PendingAddWritesLast]_vars

(* C39: the add called first has resolved after the add called second, which
   had stored its record, and the map now holds the record of the first *)
PendingAddsWriteLastWitness ==
  /\ lastOp.op = "add"
  /\ lastOp.metadata = RaceMetas[1]
  /\ lastOp.hadKey
  /\ lastOp.previous[1].metadata = RaceMetas[2]
  /\ MapGet(CacheOf("h1").store, "a").metadata = RaceMetas[1]
  /\ adds = {}

(***************************************************************************)
(* SpecQuiesce: handles with autoSave on p1 and an adapter that returns;   *)
(* time passes and a timer whose delay has passed fires, as the event loop *)
(* does                                                                     *)
(***************************************************************************)
MaxQuiesceCalls == 2
MaxQuiesceSaves == 2

(* time passes while a timer is counting down *)
TimePasses == \E d \in TickSteps : Tick(d)

(* a timer whose delay has passed runs its task, and the adapter returns *)
WriteRuns == \E t \in timers : TimerFire(t, TRUE)

NextQuiesce ==
  \/ \E h \in Handles : Construct(h, "p1", TRUE, 0)
  \/ Mutate(Handles, {"a"}, {Undefined}, {<<1, 0>>}, MaxQuiesceCalls, MaxQuiesceSaves)
  \/ \E h \in Handles :
       /\ SaveRoom(handles[h].live /\ SaveSchedules(h, CacheOf(h).dirty), MaxQuiesceSaves)
       /\ Save(h)
  \/ TimePasses
  \/ WriteRuns

SpecQuiesce ==
  Init /\ [][NextQuiesce]_vars /\ WF_vars(TimePasses) /\ WF_vars(WriteRuns)

(* a write is pending *)
WritePending == timers # {}

(* nothing is left to write: no timer, every store clean and held by the
   durable snapshot *)
Settled ==
  /\ timers = {}
  /\ \A h \in LiveHandles : ~CacheOf(h).dirty /\ MapMatchesSnapshot(h)

(* the pending write has just run: the store is settled and the gate of the
   handle whose save() scheduled that write is unlocked *)
WrittenAndSettled ==
  /\ IsWrite
  /\ lastOp.ok
  /\ Settled
  /\ handles[lastOp.h].lockGen \in handles[lastOp.h].lockResolved

(* the array a write passes to the adapter is the map as the task finds it
   when the timer fires *)
WritesMapAtFire ==
  (IsWrite /\ ~WriteOverflowed) => lastOp.passed = SerializeStore(lastOp.before)

(* C40: with autoSave, a storagePath and an adapter that returns, a pending
   write eventually runs once the mutations have stopped, and then the dirty
   flag is false, no timer is pending, the gate of the handle that scheduled
   the write is unlocked and the durable snapshot holds the map; the index
   stays so from some point on; and what a write passes is the map as it is
   when the timer fires. *)
Quiescence ==
  /\ WritePending ~> WrittenAndSettled
  /\ <>[]Settled
  /\ []WritesMapAtFire

(* C40: two adds resolved within one delay, each asking for a save, were
   followed by one write, which passed the map as the second left it; the
   index is settled *)
QuiescenceWitness ==
  /\ WrittenAndSettled
  /\ saveCalls = 2
  /\ burstRequests["p1"] = 2
  /\ burstCalls["p1"] = 1
  /\ parserCalls = 2
  /\ adds = {}
  /\ Len(written["p1"]) = 1
  /\ Len(lastOp.passed) = 1

====
